---- MODULE Spec2Model ----
(***************************************************************************)
(* Model of the concurrent acquisition engine of msr-archiver:             *)
(*   - worker.Run   (internal/worker/pool.go)  bounded worker pool         *)
(*   - withRetry / withRetryResult (cmd/main.go), withRetry (tui retry.ts) *)
(*   - state.Store  (internal/state/store.go)  completion store            *)
(*   - shouldUseCachedAlbums (cmd/main.go)     catalog cache freshness     *)
(*   - catalog.Cache (internal/catalog/cache.go) album catalog cache       *)
(*   - loadAlbums    (cmd/main.go)             cache policy of the caller  *)
(*   - download.Downloader (internal/download) progress-tracked transfer   *)
(*   - processAlbum  (cmd/main.go)             the album job               *)
(*   - withRetry and withRetryResult run side by side on equal inputs      *)
(*   - a transfer retried into one destination path, byte by byte          *)
(*   - CompletedAlbumStore (tui)               completion store of the TUI *)
(***************************************************************************)
EXTENDS Integers, Sequences, FiniteSets, TLC

(* ---------------------------- bounds ----------------------------------- *)
MaxWorkers == 2
MaxJobs == 4
MaxAttempts == 4
MaxCallers == 2
MaxNames == 2
MaxCrashes == 1
\* latest instant, and largest time.Duration (math.MaxInt64 in the program)
MaxTime == 6
MaxDuration == 3
\* chunks of a response body, and clock ticks during one transfer
MaxChunks == 3
MaxTicks == 5
\* songs of one album
MaxSongs == 2

WorkerArgs == (0 - 1)..MaxWorkers
\* one slot more than the largest worker count, so that a surplus goroutine is visible
WorkerIds == 1..(MaxWorkers + 1)

VARIABLES
    \* ---- worker.Run ----
    workersArg,   \* the `workers` argument as passed by the caller
    workers,      \* the local `workers` after the coercion of line 14
    jobs,         \* len(jobs); job j is jobs[j-1]
    ctxDone,      \* ctx has been cancelled (ctx.Done() closed, ctx.Err() != nil)
    runPc,        \* position of the goroutine executing Run
    spawnI,       \* loop variable i of the spawn loop (line 25)
    enqI,         \* 1-based index of the job the enqueue loop is offering
    jobChClosed,  \* close(jobCh) has happened
    wPc,          \* position of each worker goroutine
    wJob,         \* job a worker received from jobCh (0 = none)
    wg,           \* sync.WaitGroup counter
    errCh,        \* buffered error channel: the errors sent and not yet received
    errChClosed,  \* close(errCh) has happened
    errs,         \* the slice `errs` of Run
    ret,          \* the value Run returned: sequence of joined errors (<<>> = nil)
    status,       \* per job: "queued", "running", "completed", "failed"
    startCount,   \* per job: number of times job(ctx) was invoked
    sawDone,      \* the select of the enqueue loop took the ctx.Done() case
    ctxDoneAtCall, \* ctx was already cancelled when Run was called
    \* ---- withRetry / withRetryResult ----
    variant,      \* which of the two functions is executing
    attemptsArg,  \* the `attempts` argument as passed by the caller
    attempts,     \* the local `attempts` after the coercion
    failsBefore,  \* fn fails on its first failsBefore invocations and succeeds afterwards
    retryCtxDone, \* the ctx passed to the executor has been cancelled
    retryPc,      \* position inside the executor
    retryI,       \* loop variable i
    calls,        \* number of invocations of fn so far
    retryErr,     \* the local `err`
    timerFired,   \* the channel of time.After has a value ready
    waits,        \* durations (ms) passed to time.After so far
    retVal,       \* returned value (withRetryResult; 0 is the zero value)
    retErr,       \* returned error
    wokenBy,      \* the event that woke the executor blocked in its wait
    cancelledInWait,    \* ctx was cancelled while the executor was blocked in its wait
    retryCtxDoneAtCall, \* ctx was already cancelled when the executor was called
    \* ---- state.Store ----
    stFile,       \* the file at s.path: [kind, elems]
    stOpen,       \* "unopened", "open" (NewStore returned a store), "error"
    stSet,        \* s.set
    stMu,         \* s.mu: the caller holding it, 0 when free
    tPc,          \* per caller: position inside MarkCompleted, "idle" outside
    tName,        \* per caller: the albumName argument
    tAlbums,      \* per caller: the sorted slice `albums` (the payload)
    tTmp,         \* per caller: the temporary file of its call: [kind, elems]
    fileAtCall,   \* per caller: the file at s.path when its call acquired s.mu
    lastSeen,     \* result of the IsCompleted call that returned last
    durable,      \* names loaded by the first NewStore or marked with a nil return
    lastRet,      \* result of the MarkCompleted call that returned last
    lastEarly,    \* that call returned from the presence check, before any I/O
    anyFailed,    \* some MarkCompleted call returned an error
    crashes,      \* number of process crashes so far
    crashedAt,    \* position of the caller inside MarkCompleted at the last crash
    \* ---- shouldUseCachedAlbums ----
    cachedAt,     \* argument: time the catalog was cached, ZeroTime when unset
    ttl,          \* argument: a time.Duration
    now,          \* argument: the current time
    freshPc,      \* "called" or "returned"
    freshResult,  \* the boolean returned
    \* ---- catalog.Cache ----
    cFile,        \* the file at c.path: [kind, at, albums]
    svPc,         \* position inside Save, "idle" outside
    svItems,      \* Save's argument `albums`
    svNow,        \* time.Now() of line 84
    svTmp,        \* the temporary file of the call: "none", "empty", "partial", "complete"
    svFileAtCall, \* the file at c.path when Save was called
    svRet,        \* result of the Save call that returned last: "none", "nil", "err"
    ldErr,        \* error of the Load call that has just returned, "none" otherwise
    ldAlbums,     \* albums returned by that Load
    ldAt,         \* timestamp returned by that Load
    cCrashes,     \* number of process crashes so far
    cCrashedAt,   \* svPc at the last crash
    \* ---- loadAlbums ----
    laVariant,    \* which loadAlbums: "main" (cmd/main.go 97) or "ttl" (the copy that knows AlbumCacheTTL)
    laLoad,       \* outcome of cache.Load(): "nil", "notexist", "other"
    laStamp,      \* the timestamp cache.Load() returns when it succeeds
    laTtl,        \* cfg.AlbumCacheTTL
    laNow,        \* time.Now() at the freshness check
    laRefresh,    \* cfg.RefreshAlbums
    laPc,         \* "load", "decide", "fetch", "save", "returned"
    laHasCached,  \* the local hasCached
    laCachedAt,   \* the local cachedAt
    laFetch,      \* outcome of withRetryResult(ctx, 3, GetAlbums): "none", "ok", "failed"
    laSave,       \* outcome of cache.Save(albums): "none", "ok", "failed"
    laRet,        \* the albums returned: "none", "cached", "fetched", "nil"
    laErr,        \* loadAlbums returned a non-nil error
    \* ---- download.Downloader ----
    dlSong,       \* TRUE: DownloadSongWithProgress, FALSE: DownloadToFileWithProgress alone
    dlStatus,     \* outcome of httpClient.Do: "2xx", "other" (another status), "doerr"
    dlDeclared,   \* resp.ContentLength: the declared length, -1 when none is declared
    dlBody,       \* number of body chunks the server sends before the stream ends
    dlHasProgress,\* progress # nil
    dlCt,         \* the Content-Type header, a sequence of words
    dlDstBefore,  \* the destination file before the call
    dlDst,        \* the destination file (wavPath for a song): [state, len]
    dlPc,         \* "do", "mkdir", "create", "copy", "type", "convert", "remove", "returned"
    dlRead,       \* chunks read from resp.Body so far
    dlWritten,    \* the local bytesWritten
    dlTotal,      \* the local totalBytes
    dlClock,      \* milliseconds since `started`
    dlLast,       \* the local lastProgress, NoTime while it is the zero Time
    dlCalls,      \* the invocations of progress so far: [b, total, at, final]
    dlErr,        \* "none" while running, then "nil", "do", "status", "mkdir", "create", "copy", "rename", "ffmpeg", "remove"
    dlResBytes,   \* FileDownloadResult.BytesWritten
    sgMp3,        \* <name>.mp3 exists
    sgFlac,       \* <name>.flac exists
    sgFfmpeg,     \* audio.WAVToFLAC was called
    sgType,       \* the file type returned: "none", ".mp3", ".flac"
    \* ---- withRetry and withRetryResult side by side ----
    eqN,          \* the attempts argument given to both executors
    eqOut,        \* eqOut[c]: the c-th invocation of fn succeeds
    eqCancelAt,   \* the wait during which ctx is cancelled, 0 for never
    eqA,          \* withRetry: [pc, n, i, calls, err, ret, val]
    eqB,          \* withRetryResult: [pc, n, i, calls, err, ret, val]
    \* ---- processAlbum ----
    jbName,       \* album.Name of each album of the run, by CID
    jbDone,       \* the albums (CIDs) fully processed by earlier runs
    jbSet,        \* the completion set of the store
    jbCtxDone,    \* the context of the run is cancelled
    \* per album job, a record: pc, the locals (cover, listed, songs, song, log of
    \* the steps done for the current song, try and err of the song download), the
    \* songs done, net and file (it used the network, the file system), marks (calls
    \* of MarkCompleted), ret, skipped
    job,          \* [Cids -> record]
    \* ---- a transfer retried into one path ----
    rtFile,       \* the file at dstPath: [exists, bytes]
    rtLeft,       \* the file as the last failed attempt left it
    rtTry,        \* the attempt of withRetry
    rtPc,         \* "request", "create", "copy", "returned"
    rtBody,       \* number of bytes the response of this attempt delivers
    rtOff,        \* bytes written by this attempt: the offset of the open file
    rtErr,        \* "none" while running, then "nil" or "failed"
    \* ---- CompletedAlbumStore (TUI) ----
    tsSet,        \* this.completed
    tsFile,       \* the file at this.path: [kind, elems]
    tsTmp,        \* the files at this.path + ".tmp." + ms, by ms
    tsNow,        \* Date.now()
    tsPc,         \* per call of markCompleted: "idle", "mkdir", "write", "rename" (the await it is at), "resolved", "rejected"
    tsSorted,     \* per call: the local sorted
    tsTmpPath     \* per call: the ms in the local tmpPath

poolVars == <<workersArg, workers, jobs, ctxDone, runPc, spawnI, enqI, jobChClosed,
              wPc, wJob, wg, errCh, errChClosed, errs, ret, status, startCount,
              sawDone, ctxDoneAtCall>>

retryVars == <<variant, attemptsArg, attempts, failsBefore, retryCtxDone, retryPc, retryI,
               calls, retryErr, timerFired, waits, retVal, retErr, wokenBy,
               cancelledInWait, retryCtxDoneAtCall>>

storeVars == <<stFile, stOpen, stSet, stMu, tPc, tName, tAlbums, tTmp, fileAtCall,
               lastSeen, durable, lastRet, lastEarly, anyFailed, crashes, crashedAt>>

freshVars == <<cachedAt, ttl, now, freshPc, freshResult>>

cacheVars == <<cFile, svPc, svItems, svNow, svTmp, svFileAtCall, svRet,
               ldErr, ldAlbums, ldAt, cCrashes, cCrashedAt>>

laVars == <<laVariant, laLoad, laStamp, laTtl, laNow, laRefresh, laPc, laHasCached,
            laCachedAt, laFetch, laSave, laRet, laErr>>

dlVars == <<dlSong, dlStatus, dlDeclared, dlBody, dlHasProgress, dlCt, dlDstBefore, dlDst,
            dlPc, dlRead, dlWritten, dlTotal, dlClock, dlLast, dlCalls, dlErr,
            dlResBytes, sgMp3, sgFlac, sgFfmpeg, sgType>>

eqVars == <<eqN, eqOut, eqCancelAt, eqA, eqB>>

jobVars == <<jbName, jbDone, jbSet, jbCtxDone, job>>

rtVars == <<rtFile, rtLeft, rtTry, rtPc, rtBody, rtOff, rtErr>>

tsVars == <<tsSet, tsFile, tsTmp, tsNow, tsPc, tsSorted, tsTmpPath>>

vars == <<poolVars, retryVars, storeVars, freshVars, cacheVars, laVars, dlVars, eqVars, jobVars, rtVars, tsVars>>

\* what each component leaves alone
nonPoolVars == <<retryVars, storeVars, freshVars, cacheVars, laVars, dlVars, eqVars, jobVars, rtVars, tsVars>>
nonRetryVars == <<poolVars, storeVars, freshVars, cacheVars, laVars, dlVars, eqVars, jobVars, rtVars, tsVars>>
nonStoreVars == <<poolVars, retryVars, freshVars, cacheVars, laVars, dlVars, eqVars, jobVars, rtVars, tsVars>>
nonFreshVars == <<poolVars, retryVars, storeVars, cacheVars, laVars, dlVars, eqVars, jobVars, rtVars, tsVars>>
nonCacheVars == <<poolVars, retryVars, storeVars, freshVars, laVars, dlVars, eqVars, jobVars, rtVars, tsVars>>
nonLaVars == <<poolVars, retryVars, storeVars, freshVars, cacheVars, dlVars, eqVars, jobVars, rtVars, tsVars>>
nonDlVars == <<poolVars, retryVars, storeVars, freshVars, cacheVars, laVars, eqVars, jobVars, rtVars, tsVars>>
nonEqVars == <<poolVars, retryVars, storeVars, freshVars, cacheVars, laVars, dlVars, jobVars, rtVars, tsVars>>
nonJobVars == <<poolVars, retryVars, storeVars, freshVars, cacheVars, laVars, dlVars, eqVars, rtVars, tsVars>>
nonRtVars == <<poolVars, retryVars, storeVars, freshVars, cacheVars, laVars, dlVars, eqVars, jobVars, tsVars>>
nonTsVars == <<poolVars, retryVars, storeVars, freshVars, cacheVars, laVars, dlVars, eqVars, jobVars, rtVars>>

\* error values: ctx.Err() of a cancelled context, and the error returned by job j
CtxErr == <<"context canceled", 0>>
JobErr(j) == <<"job failed", j>>

(* ------------------------------ worker.Run ----------------------------- *)

PoolInit ==
    /\ workersArg \in WorkerArgs
    /\ workers = workersArg
    /\ jobs \in 0..MaxJobs
    /\ ctxDone \in BOOLEAN
    /\ runPc = "start"
    /\ spawnI = 0
    /\ enqI = 1
    /\ jobChClosed = FALSE
    /\ wPc = [w \in WorkerIds |-> "unspawned"]
    /\ wJob = [w \in WorkerIds |-> 0]
    /\ wg = 0
    /\ errCh = <<>>
    /\ errChClosed = FALSE
    /\ errs = <<>>
    /\ ret = <<>>
    /\ status = [j \in 1..jobs |-> "queued"]
    /\ startCount = [j \in 1..jobs |-> 0]
    /\ sawDone = FALSE
    /\ ctxDoneAtCall = ctxDone

\* cancel() of the caller's context; may happen at any moment while Run executes
Cancel ==
    /\ runPc # "returned"
    /\ ~ctxDone
    /\ ctxDone' = TRUE
    /\ UNCHANGED <<ctxDoneAtCall, workersArg, workers, jobs, runPc, spawnI, enqI, jobChClosed, wPc,
                   wJob, wg, errCh, errChClosed, errs, ret, status, startCount, sawDone>>
    /\ UNCHANGED nonPoolVars

\* lines 14-19: coerce workers, return nil on an empty job list
CoerceWorkers(w) == IF w < 1 THEN 1 ELSE w

\* mutant of RunStart: the empty-list check of line 17 is missing
RunStartNoEmptyCheck ==
    /\ runPc = "start"
    /\ workers' = CoerceWorkers(workers)
    /\ runPc' = "spawn"
    /\ UNCHANGED <<ctxDoneAtCall, workersArg, jobs, ctxDone, spawnI, enqI, jobChClosed, wPc, wJob,
                   wg, errCh, errChClosed, errs, ret, status, startCount, sawDone>>
    /\ UNCHANGED nonPoolVars

RunStart ==
    /\ runPc = "start"
    /\ workers' = CoerceWorkers(workers)
    /\ IF jobs = 0
         THEN /\ runPc' = "returned"
              /\ ret' = <<>>
         ELSE /\ runPc' = "spawn"
              /\ UNCHANGED ret
    /\ UNCHANGED <<ctxDoneAtCall, workersArg, jobs, ctxDone, spawnI, enqI, jobChClosed, wPc, wJob, wg,
                   errCh, errChClosed, errs, status, startCount, sawDone>>
    /\ UNCHANGED nonPoolVars

\* mutant of SpawnWorker: off-by-one loop bound (i <= workers)
SpawnWorkerOffByOne ==
    /\ runPc = "spawn"
    /\ spawnI <= workers
    /\ wg' = wg + 1
    /\ wPc' = [wPc EXCEPT ![spawnI + 1] = "recv"]
    /\ spawnI' = spawnI + 1
    /\ UNCHANGED <<ctxDoneAtCall, workersArg, workers, jobs, ctxDone, runPc, enqI, jobChClosed, wJob,
                   errCh, errChClosed, errs, ret, status, startCount, sawDone>>
    /\ UNCHANGED nonPoolVars

\* lines 25-35: one iteration of the spawn loop (wg.Add(1); go func)
SpawnWorker ==
    /\ runPc = "spawn"
    /\ spawnI < workers
    /\ wg' = wg + 1
    /\ wPc' = [wPc EXCEPT ![spawnI + 1] = "recv"]
    /\ spawnI' = spawnI + 1
    /\ UNCHANGED <<ctxDoneAtCall, workersArg, workers, jobs, ctxDone, runPc, enqI, jobChClosed, wJob,
                   errCh, errChClosed, errs, ret, status, startCount, sawDone>>
    /\ UNCHANGED nonPoolVars

SpawnDone ==
    /\ runPc = "spawn"
    /\ spawnI >= workers
    /\ runPc' = "enqueue"
    /\ UNCHANGED <<ctxDoneAtCall, workersArg, workers, jobs, ctxDone, spawnI, enqI, jobChClosed, wPc,
                   wJob, wg, errCh, errChClosed, errs, ret, status, startCount, sawDone>>
    /\ UNCHANGED nonPoolVars

\* mutant of EnqueueSend: the loop does not advance to the next job
EnqueueSendAgain(w) ==
    /\ runPc = "enqueue"
    /\ enqI <= jobs
    /\ wPc[w] = "recv"
    /\ startCount[enqI] < 2
    /\ wPc' = [wPc EXCEPT ![w] = "run"]
    /\ wJob' = [wJob EXCEPT ![w] = enqI]
    /\ status' = [status EXCEPT ![enqI] = "running"]
    /\ startCount' = [startCount EXCEPT ![enqI] = @ + 1]
    /\ enqI' \in {enqI, enqI + 1}
    /\ UNCHANGED <<ctxDoneAtCall, workersArg, workers, jobs, ctxDone, runPc, spawnI, jobChClosed, wg,
                   errCh, errChClosed, errs, ret, sawDone>>
    /\ UNCHANGED nonPoolVars

\* line 42 / line 29-30: the select sends jobs[enqI] on the unbuffered jobCh and a
\* worker blocked in `range jobCh` receives it and invokes job(ctx)
EnqueueSend(w) ==
    /\ runPc = "enqueue"
    /\ enqI <= jobs
    /\ wPc[w] = "recv"
    /\ wPc' = [wPc EXCEPT ![w] = "run"]
    /\ wJob' = [wJob EXCEPT ![w] = enqI]
    /\ status' = [status EXCEPT ![enqI] = "running"]
    /\ startCount' = [startCount EXCEPT ![enqI] = @ + 1]
    /\ enqI' = enqI + 1
    /\ UNCHANGED <<ctxDoneAtCall, workersArg, workers, jobs, ctxDone, runPc, spawnI, jobChClosed, wg,
                   errCh, errChClosed, errs, ret, sawDone>>
    /\ UNCHANGED nonPoolVars

\* mutant of EnqueueCancel: `continue` instead of `break enqueueLoop`
EnqueueCancelContinue ==
    /\ runPc = "enqueue"
    /\ enqI <= jobs
    /\ ctxDone
    /\ enqI' = enqI + 1
    /\ sawDone' = TRUE
    /\ UNCHANGED <<ctxDoneAtCall, workersArg, workers, jobs, ctxDone, runPc, spawnI, jobChClosed, wPc,
                   wJob, wg, errCh, errChClosed, errs, ret, status, startCount>>
    /\ UNCHANGED nonPoolVars

\* lines 40-41: the select takes the ctx.Done() case and breaks out of the loop
EnqueueCancel ==
    /\ runPc = "enqueue"
    /\ enqI <= jobs
    /\ ctxDone
    /\ runPc' = "close"
    /\ sawDone' = TRUE
    /\ UNCHANGED <<ctxDoneAtCall, workersArg, workers, jobs, ctxDone, spawnI, enqI, jobChClosed, wPc,
                   wJob, wg, errCh, errChClosed, errs, ret, status, startCount>>
    /\ UNCHANGED nonPoolVars

\* line 38: the range over jobs is exhausted
EnqueueExhausted ==
    /\ runPc = "enqueue"
    /\ enqI > jobs
    /\ runPc' = "close"
    /\ UNCHANGED <<ctxDoneAtCall, workersArg, workers, jobs, ctxDone, spawnI, enqI, jobChClosed, wPc,
                   wJob, wg, errCh, errChClosed, errs, ret, status, startCount, sawDone>>
    /\ UNCHANGED nonPoolVars

\* line 45
CloseJobCh ==
    /\ runPc = "close"
    /\ jobChClosed' = TRUE
    /\ runPc' = "wait"
    /\ UNCHANGED <<ctxDoneAtCall, workersArg, workers, jobs, ctxDone, spawnI, enqI, wPc, wJob, wg,
                   errCh, errChClosed, errs, ret, status, startCount, sawDone>>
    /\ UNCHANGED nonPoolVars

\* line 30: job(ctx) returns, with or without an error
JobReturn(w, failed) ==
    /\ wPc[w] = "run"
    /\ status' = [status EXCEPT ![wJob[w]] = IF failed THEN "failed" ELSE "completed"]
    /\ wPc' = [wPc EXCEPT ![w] = IF failed THEN "send" ELSE "recv"]
    /\ wJob' = [wJob EXCEPT ![w] = IF failed THEN @ ELSE 0]
    /\ UNCHANGED <<ctxDoneAtCall, workersArg, workers, jobs, ctxDone, runPc, spawnI, enqI, jobChClosed,
                   wg, errCh, errChClosed, errs, ret, startCount, sawDone>>
    /\ UNCHANGED nonPoolVars

\* mutant of SendErr: errCh is made with one slot less than len(jobs)
SendErrSmallBuffer(w) ==
    /\ wPc[w] = "send"
    /\ Len(errCh) < jobs - 1
    /\ ~errChClosed
    /\ errCh' = Append(errCh, JobErr(wJob[w]))
    /\ wPc' = [wPc EXCEPT ![w] = "recv"]
    /\ wJob' = [wJob EXCEPT ![w] = 0]
    /\ UNCHANGED <<ctxDoneAtCall, workersArg, workers, jobs, ctxDone, runPc, spawnI, enqI, jobChClosed,
                   wg, errChClosed, errs, ret, status, startCount, sawDone>>
    /\ UNCHANGED nonPoolVars

\* line 31: errCh <- err (buffered with capacity len(jobs))
SendErr(w) ==
    /\ wPc[w] = "send"
    /\ Len(errCh) < jobs
    /\ ~errChClosed
    /\ errCh' = Append(errCh, JobErr(wJob[w]))
    /\ wPc' = [wPc EXCEPT ![w] = "recv"]
    /\ wJob' = [wJob EXCEPT ![w] = 0]
    /\ UNCHANGED <<ctxDoneAtCall, workersArg, workers, jobs, ctxDone, runPc, spawnI, enqI, jobChClosed,
                   wg, errChClosed, errs, ret, status, startCount, sawDone>>
    /\ UNCHANGED nonPoolVars

\* mutant of WorkerExit: the deferred wg.Done() is missing
WorkerExitNoDone(w) ==
    /\ wPc[w] = "recv"
    /\ jobChClosed
    /\ wPc' = [wPc EXCEPT ![w] = "done"]
    /\ UNCHANGED <<ctxDoneAtCall, workersArg, workers, jobs, ctxDone, runPc, spawnI, enqI, jobChClosed,
                   wJob, wg, errCh, errChClosed, errs, ret, status, startCount, sawDone>>
    /\ UNCHANGED nonPoolVars

\* line 29 + 28: range jobCh ends on the closed channel; deferred wg.Done()
WorkerExit(w) ==
    /\ wPc[w] = "recv"
    /\ jobChClosed
    /\ wPc' = [wPc EXCEPT ![w] = "done"]
    /\ wg' = wg - 1
    /\ UNCHANGED <<ctxDoneAtCall, workersArg, workers, jobs, ctxDone, runPc, spawnI, enqI, jobChClosed,
                   wJob, errCh, errChClosed, errs, ret, status, startCount, sawDone>>
    /\ UNCHANGED nonPoolVars

\* mutant of WaitWorkers: wg.Wait() is missing
WaitWorkersNoWait ==
    /\ runPc = "wait"
    /\ errChClosed' = TRUE
    /\ runPc' = "collect"
    /\ UNCHANGED <<ctxDoneAtCall, workersArg, workers, jobs, ctxDone, spawnI, enqI, jobChClosed, wPc,
                   wJob, wg, errCh, errs, ret, status, startCount, sawDone>>
    /\ UNCHANGED nonPoolVars

\* lines 47-48: wg.Wait() returns when the counter is zero; close(errCh)
WaitWorkers ==
    /\ runPc = "wait"
    /\ wg = 0
    /\ errChClosed' = TRUE
    /\ runPc' = "collect"
    /\ UNCHANGED <<ctxDoneAtCall, workersArg, workers, jobs, ctxDone, spawnI, enqI, jobChClosed, wPc,
                   wJob, wg, errCh, errs, ret, status, startCount, sawDone>>
    /\ UNCHANGED nonPoolVars

\* mutant of CollectErrs: only the first error of errCh is kept
CollectErrsFirstOnly ==
    /\ runPc = "collect"
    /\ errChClosed
    /\ errs' = IF errCh = <<>> THEN errs ELSE Append(errs, Head(errCh))
    /\ errCh' = <<>>
    /\ runPc' = "ctxcheck"
    /\ UNCHANGED <<ctxDoneAtCall, workersArg, workers, jobs, ctxDone, spawnI, enqI, jobChClosed, wPc,
                   wJob, wg, errChClosed, ret, status, startCount, sawDone>>
    /\ UNCHANGED nonPoolVars

\* lines 50-53: drain the closed errCh into errs
CollectErrs ==
    /\ runPc = "collect"
    /\ errChClosed
    /\ errs' = errs \o errCh
    /\ errCh' = <<>>
    /\ runPc' = "ctxcheck"
    /\ UNCHANGED <<ctxDoneAtCall, workersArg, workers, jobs, ctxDone, spawnI, enqI, jobChClosed, wPc,
                   wJob, wg, errChClosed, ret, status, startCount, sawDone>>
    /\ UNCHANGED nonPoolVars

\* mutant of JoinWithCtx: the ctx.Err() check of line 54 is missing
JoinWithCtxOmitted(es, done) == es

\* lines 54-61: append ctx.Err() if set, return errors.Join(errs...) or nil
\* (ctx.Err() is read once, at line 54; that read fixes the returned value)
JoinWithCtx(es, done) == IF done THEN Append(es, CtxErr) ELSE es

RunReturn ==
    /\ runPc = "ctxcheck"
    /\ errs' = JoinWithCtx(errs, ctxDone)
    /\ ret' = errs'
    /\ runPc' = "returned"
    /\ UNCHANGED <<ctxDoneAtCall, workersArg, workers, jobs, ctxDone, spawnI, enqI, jobChClosed, wPc,
                   wJob, wg, errCh, errChClosed, status, startCount, sawDone>>
    /\ UNCHANGED nonPoolVars

PoolProgress ==
    \/ RunStart
    \/ SpawnWorker
    \/ SpawnDone
    \/ \E w \in WorkerIds : EnqueueSend(w)
    \/ EnqueueCancel
    \/ EnqueueExhausted
    \/ CloseJobCh
    \/ \E w \in WorkerIds, failed \in BOOLEAN : JobReturn(w, failed)
    \/ \E w \in WorkerIds : SendErr(w)
    \/ \E w \in WorkerIds : WorkerExit(w)
    \/ WaitWorkers
    \/ CollectErrs
    \/ RunReturn

PoolNext == Cancel \/ PoolProgress

(* -------------------- withRetry / withRetryResult ---------------------- *)

NilErr == <<"nil", 0>>
\* the error returned by the c-th invocation of fn, and the value it returns on success
OpErr(c) == <<"op failed", c>>
OpValue(c) == c
OpFails(c) == c <= failsBefore
\* main.go withRetry, main.go withRetryResult, tui/src/lib/retry.ts withRetry
\* (its `operation canceled` error is represented by CtxErr)
Variants == {"withRetry", "withRetryResult", "ts"}
BackoffUnitMs == 400

RetryInit ==
    /\ variant \in Variants
    /\ attemptsArg \in (0 - 1)..MaxAttempts
    /\ attempts = attemptsArg
    /\ failsBefore \in 0..(MaxAttempts + 1)
    /\ retryCtxDone \in BOOLEAN
    /\ retryPc = "start"
    /\ retryI = 0
    /\ calls = 0
    /\ retryErr = NilErr
    /\ timerFired = FALSE
    /\ waits = <<>>
    /\ retVal = 0
    /\ retErr = NilErr
    /\ wokenBy = "none"
    /\ cancelledInWait = FALSE
    /\ retryCtxDoneAtCall = retryCtxDone

\* cancel() of the context (abort of the signal) handed to the executor. An
\* executor blocked in its select (Go) or in sleep (ts) is woken by it: the
\* runtime commits the ctx.Done() case, the abort listener rejects the promise.
RetryCancel ==
    /\ retryPc # "returned"
    /\ ~retryCtxDone
    /\ retryCtxDone' = TRUE
    /\ IF retryPc = "blocked"
         THEN /\ retryPc' = "woken"
              /\ wokenBy' = "done"
              /\ cancelledInWait' = TRUE
         ELSE UNCHANGED <<retryPc, wokenBy, cancelledInWait>>
    /\ UNCHANGED <<variant, attemptsArg, attempts, failsBefore, retryI, calls,
                   retryErr, timerFired, waits, retVal, retErr, retryCtxDoneAtCall>>
    /\ UNCHANGED nonRetryVars

\* mutant of CoerceAttempts: the coercion is missing
CoerceAttemptsMissing(n) == n

\* main.go 564-566 / 588-590: if attempts < 1 { attempts = 1 }; retry.ts 2
CoerceAttempts(n) == IF n < 1 THEN 1 ELSE n

\* main.go 564-569 / 588-593, retry.ts 2-5: coercion, `var err error`, i := 1
RetryStart ==
    /\ retryPc = "start"
    /\ attempts' = CoerceAttempts(attempts)
    /\ retryI' = 1
    /\ retryPc' = "loop"
    /\ UNCHANGED <<variant, attemptsArg, failsBefore, retryCtxDone, calls, retryErr,
                   timerFired, waits, retVal, retErr, wokenBy, cancelledInWait,
                   retryCtxDoneAtCall>>
    /\ UNCHANGED nonRetryVars

\* mutant of BackoffMs: exponential backoff
BackoffMsExponential(i) == BackoffUnitMs * 2^(i - 1)

\* main.go 580 / 605: time.Duration(i) * 400 * time.Millisecond; retry.ts 16: i * 400
BackoffMs(i) == i * BackoffUnitMs

\* mutant of IsLastAttempt: gives up one attempt early
IsLastAttemptEarly(i, n) == i >= n - 1

\* main.go 574 / 599: if i == attempts { break }; retry.ts 13
IsLastAttempt(i, n) == i = n

\* retry.ts 6-8: the signal is checked before every attempt; the Go functions
\* have no such check
RefusesAttempt == variant = "ts" /\ retryCtxDone

\* main.go 569-583 / 593-609, retry.ts 5-20: the loop condition and one
\* iteration up to the wait: leave the loop and return err when i > attempts;
\* (ts) throw when the signal is aborted; otherwise invoke fn, return on
\* success, break and return err after the last attempt, else start the wait:
\* Go evaluates time.After and enters the select, ts awaits sleep(i * 400).
RetryAttempt ==
    /\ retryPc = "loop"
    /\ IF retryI > attempts
         THEN /\ retryPc' = "returned"
              /\ retVal' = 0
              /\ retErr' = retryErr
              /\ UNCHANGED <<calls, retryErr, timerFired, waits>>
         ELSE IF RefusesAttempt
         THEN /\ retryPc' = "returned"
              /\ retVal' = 0
              /\ retErr' = CtxErr
              /\ UNCHANGED <<calls, retryErr, timerFired, waits>>
         ELSE /\ calls' = calls + 1
              /\ IF ~OpFails(calls')
                   THEN /\ retryPc' = "returned"
                        /\ retVal' = IF variant = "withRetry" THEN 0 ELSE OpValue(calls')
                        /\ retErr' = NilErr
                        /\ retryErr' = IF variant = "withRetry" THEN NilErr ELSE retryErr
                        /\ UNCHANGED <<timerFired, waits>>
                   ELSE /\ retryErr' = OpErr(calls')
                        /\ IF IsLastAttempt(retryI, attempts)
                             THEN /\ retryPc' = "returned"
                                  /\ retVal' = 0
                                  /\ retErr' = retryErr'
                                  /\ UNCHANGED <<timerFired, waits>>
                             ELSE /\ retryPc' = IF variant = "ts" THEN "blocked" ELSE "select"
                                  /\ timerFired' = FALSE
                                  /\ waits' = Append(waits, BackoffMs(retryI))
                                  /\ UNCHANGED <<retVal, retErr>>
    /\ wokenBy' = "none"
    /\ UNCHANGED <<variant, attemptsArg, attempts, failsBefore, retryCtxDone, retryI,
                   cancelledInWait, retryCtxDoneAtCall>>
    /\ UNCHANGED nonRetryVars

\* main.go 577 / 602: the select finds neither channel ready and blocks
SelectBlock ==
    /\ retryPc = "select"
    /\ ~retryCtxDone
    /\ ~timerFired
    /\ retryPc' = "blocked"
    /\ UNCHANGED <<variant, attemptsArg, attempts, failsBefore, retryCtxDone, retryI,
                   calls, retryErr, timerFired, waits, retVal, retErr, wokenBy,
                   cancelledInWait, retryCtxDoneAtCall>>
    /\ UNCHANGED nonRetryVars

\* the duration handed to time.After / setTimeout elapses; an executor blocked in
\* its wait is woken by the timer, one already woken by the cancellation is not
TimerFire ==
    /\ retryPc \in {"select", "blocked", "woken"}
    /\ ~timerFired
    /\ timerFired' = TRUE
    /\ IF retryPc = "blocked"
         THEN /\ retryPc' = "woken"
              /\ wokenBy' = "timer"
         ELSE UNCHANGED <<retryPc, wokenBy>>
    /\ UNCHANGED <<variant, attemptsArg, attempts, failsBefore, retryCtxDone,
                   retryI, calls, retryErr, waits, retVal, retErr, cancelledInWait,
                   retryCtxDoneAtCall>>
    /\ UNCHANGED nonRetryVars

\* mutant of SelectDone: the operation's own error is returned
SelectDoneOwnErr ==
    /\ \/ retryPc = "select" /\ retryCtxDone
       \/ retryPc = "woken" /\ wokenBy = "done"
    /\ retryPc' = "returned"
    /\ retVal' = 0
    /\ retErr' = retryErr
    /\ UNCHANGED <<variant, attemptsArg, attempts, failsBefore, retryCtxDone, retryI,
                   calls, retryErr, timerFired, waits, wokenBy, cancelledInWait,
                   retryCtxDoneAtCall>>
    /\ UNCHANGED nonRetryVars

\* main.go 578-579 / 603-604: case <-ctx.Done(): return ctx.Err(), taken when
\* the select finds ctx.Done() ready or was woken by it; retry.ts 26-29
SelectDone ==
    /\ \/ retryPc = "select" /\ retryCtxDone
       \/ retryPc = "woken" /\ wokenBy = "done"
    /\ retryPc' = "returned"
    /\ retVal' = 0
    /\ retErr' = CtxErr
    /\ UNCHANGED <<variant, attemptsArg, attempts, failsBefore, retryCtxDone, retryI,
                   calls, retryErr, timerFired, waits, wokenBy, cancelledInWait,
                   retryCtxDoneAtCall>>
    /\ UNCHANGED nonRetryVars

\* main.go 580 / 605, 569 / 593: case <-time.After(...): next iteration, i++;
\* retry.ts 25, 5
SelectTimer ==
    /\ \/ retryPc = "select" /\ timerFired
       \/ retryPc = "woken" /\ wokenBy = "timer"
    /\ retryI' = retryI + 1
    /\ retryPc' = "loop"
    /\ UNCHANGED <<variant, attemptsArg, attempts, failsBefore, retryCtxDone, calls,
                   retryErr, timerFired, waits, retVal, retErr, wokenBy, cancelledInWait,
                   retryCtxDoneAtCall>>
    /\ UNCHANGED nonRetryVars

RetryNext ==
    \/ RetryCancel
    \/ RetryStart
    \/ RetryAttempt
    \/ SelectBlock
    \/ TimerFire
    \/ SelectDone
    \/ SelectTimer

(* ------------------------------ state.Store ---------------------------- *)

Callers == 1..MaxCallers
\* album names; their numeric order stands for the byte order of sort.Strings
Names == 1..MaxNames
\* the empty string, which sorts before every name
EmptyName == 0
\* a JSON null as an element of the array in the file
NullElem == 0 - 2
\* a JSON array element that is not a string and not null (a number, an object, ...)
NumElem == 0 - 1

AbsentFile == [kind |-> "absent", elems |-> <<>>]
ArrayFile(seq) == [kind |-> "array", elems |-> seq]
PartialFile(seq) == [kind |-> "partial", elems |-> seq]
Range(seq) == {seq[k] : k \in 1..Len(seq)}

RECURSIVE SortedSeq(_)
\* store.go 144-148: the keys of s.set collected into a slice, then sort.Strings
SortedSeq(S) ==
    IF S = {} THEN <<>>
    ELSE LET m == CHOOSE x \in S : \A y \in S : x <= y
         IN  <<m>> \o SortedSeq(S \ {m})

\* files this program itself leaves at s.path: none, or a sorted array of names
WrittenFiles == {AbsentFile} \cup {ArrayFile(SortedSeq(S)) : S \in SUBSET Names}

\* arbitrary contents of s.path: unreadable, not JSON, JSON null, a JSON value
\* that is neither array nor null, and arrays of strings, nulls and other values
ElemSeqs == {<<>>} \cup {<<a>> : a \in (NullElem..MaxNames)}
              \cup {<<a, b>> : a \in (NullElem..MaxNames), b \in (NullElem..MaxNames)}
AnyFiles == {AbsentFile}
              \cup {[kind |-> k, elems |-> <<>>] : k \in {"unreadable", "malformed", "null", "object"}}
              \cup {ArrayFile(q) : q \in ElemSeqs}

\* store.go 113-116: json.Unmarshal(b, &albums) with albums []string. Fails on
\* malformed JSON, on a value that is neither null nor an array, and on an
\* element that is neither a string nor null; null leaves albums nil and a
\* null element leaves the empty string.
ParseFails(f) ==
    \/ f.kind \in {"malformed", "object", "partial"}
    \/ f.kind = "array" /\ NumElem \in Range(f.elems)
\* a string element decodes to itself, a null element to the zero value ""
Decoded(e) == IF e = NullElem THEN EmptyName ELSE e
\* store.go 118-120: every decoded element is put into s.set
ParsedAlbums(f) == IF f.kind = "array" THEN {Decoded(e) : e \in Range(f.elems)} ELSE {}

StoreInitWith(files) ==
    /\ stFile \in files
    /\ stOpen = "unopened"
    /\ stSet = {}
    /\ stMu = 0
    /\ tPc = [t \in Callers |-> "idle"]
    /\ tName = [t \in Callers |-> 0]
    /\ tAlbums = [t \in Callers |-> <<>>]
    /\ tTmp = [t \in Callers |-> AbsentFile]
    /\ fileAtCall = [t \in Callers |-> AbsentFile]
    /\ lastSeen = "none"
    /\ durable = {}
    /\ lastRet = "none"
    /\ lastEarly = FALSE
    /\ anyFailed = FALSE
    /\ crashes = 0
    /\ crashedAt = "none"

StoreInit == StoreInitWith(WrittenFiles)
LoadInit == StoreInitWith(AnyFiles)

\* mutant of NewStore: a missing file is treated like any other read error
NewStoreNoNotExist ==
    /\ stOpen = "unopened"
    /\ IF stFile.kind \in {"unreadable", "absent"} \/ ParseFails(stFile)
         THEN /\ stOpen' = "error"
              /\ UNCHANGED <<stSet, durable>>
         ELSE /\ stOpen' = "open"
              /\ stSet' = ParsedAlbums(stFile)
              /\ durable' = durable \cup (IF crashes = 0 THEN stSet' ELSE {})
    /\ UNCHANGED <<stFile, stMu, tPc, tName, tAlbums, tTmp, fileAtCall, lastSeen,
                   lastRet, lastEarly, anyFailed, crashes, crashedAt>>
    /\ UNCHANGED nonStoreVars

\* store.go 99-123: NewStore
NewStore ==
    /\ stOpen = "unopened"
    /\ IF stFile.kind = "absent"
         THEN /\ stOpen' = "open"
              /\ stSet' = {}
              /\ UNCHANGED durable
         ELSE IF stFile.kind = "unreadable" \/ ParseFails(stFile)
         THEN /\ stOpen' = "error"
              /\ UNCHANGED <<stSet, durable>>
         ELSE /\ stOpen' = "open"
              /\ stSet' = ParsedAlbums(stFile)
              /\ durable' = durable \cup (IF crashes = 0 THEN stSet' ELSE {})
    /\ UNCHANGED <<stFile, stMu, tPc, tName, tAlbums, tTmp, fileAtCall, lastSeen,
                   lastRet, lastEarly, anyFailed, crashes, crashedAt>>
    /\ UNCHANGED nonStoreVars

\* store.go 126-132: IsCompleted; lock, lookup and unlock with nothing in between
IsCompleted(t, name) ==
    /\ stOpen = "open"
    /\ tPc[t] = "idle"
    /\ stMu = 0
    /\ lastSeen' = IF name \in stSet THEN "true" ELSE "false"
    /\ UNCHANGED <<stFile, stOpen, stSet, stMu, tPc, tName, tAlbums, tTmp, fileAtCall,
                   durable, lastRet, lastEarly, anyFailed, crashes, crashedAt>>
    /\ UNCHANGED nonStoreVars

\* mutant of McLock: s.mu is not taken
McLockNoMutex(t, name) ==
    /\ stOpen = "open"
    /\ tPc[t] = "idle"
    /\ stMu' = t
    /\ tPc' = [tPc EXCEPT ![t] = "check"]
    /\ tName' = [tName EXCEPT ![t] = name]
    /\ fileAtCall' = [fileAtCall EXCEPT ![t] = stFile]
    /\ UNCHANGED <<stFile, stOpen, stSet, tAlbums, tTmp, lastSeen, durable, lastRet,
                   lastEarly, anyFailed, crashes, crashedAt>>
    /\ UNCHANGED nonStoreVars

\* store.go 135-137: MarkCompleted is called and acquires s.mu
McLock(t, name) ==
    /\ stOpen = "open"
    /\ tPc[t] = "idle"
    /\ stMu = 0
    /\ stMu' = t
    /\ tPc' = [tPc EXCEPT ![t] = "check"]
    /\ tName' = [tName EXCEPT ![t] = name]
    /\ fileAtCall' = [fileAtCall EXCEPT ![t] = stFile]
    /\ UNCHANGED <<stFile, stOpen, stSet, tAlbums, tTmp, lastSeen, durable, lastRet,
                   lastEarly, anyFailed, crashes, crashedAt>>
    /\ UNCHANGED nonStoreVars

\* return r ("nil" or "err") from MarkCompleted; the deferred s.mu.Unlock()
\* runs and the locals of the call are gone
McReturns(t, r) ==
    /\ tPc' = [tPc EXCEPT ![t] = "idle"]
    /\ tName' = [tName EXCEPT ![t] = 0]
    /\ tAlbums' = [tAlbums EXCEPT ![t] = <<>>]
    /\ fileAtCall' = [fileAtCall EXCEPT ![t] = AbsentFile]
    /\ stMu' = 0
    /\ lastRet' = r
    /\ lastEarly' = (tPc[t] = "check")
    /\ anyFailed' = (anyFailed \/ r = "err")
    /\ UNCHANGED lastSeen
    /\ durable' = IF r = "nil" THEN durable \cup {tName[t]} ELSE durable

\* MarkCompleted goes on to position pc with payload q
McContinues(t, pc, q) ==
    /\ tPc' = [tPc EXCEPT ![t] = pc]
    /\ tAlbums' = [tAlbums EXCEPT ![t] = q]
    /\ UNCHANGED <<tName, fileAtCall, stMu, lastRet, lastEarly, anyFailed, lastSeen, durable>>

\* mutant of McCheck: the early return for a name already present is missing
McCheckNoEarlyReturn(t) ==
    /\ tPc[t] = "check"
    /\ stSet' = stSet \cup {tName[t]}
    /\ McContinues(t, "mkdir", SortedSeq(stSet'))
    /\ UNCHANGED <<stFile, stOpen, tTmp, crashes, crashedAt>>
    /\ UNCHANGED nonStoreVars

\* store.go 139-153: return nil if the name is present; otherwise add it to
\* s.set and build the sorted payload
McCheck(t) ==
    /\ tPc[t] = "check"
    /\ IF tName[t] \in stSet
         THEN /\ McReturns(t, "nil")
              /\ UNCHANGED stSet
         ELSE /\ stSet' = stSet \cup {tName[t]}
              /\ McContinues(t, "mkdir", SortedSeq(stSet'))
    /\ UNCHANGED <<stFile, stOpen, tTmp, crashes, crashedAt>>
    /\ UNCHANGED nonStoreVars

\* store.go 155-157: os.MkdirAll
McMkdir(t, ok) ==
    /\ tPc[t] = "mkdir"
    /\ IF ok THEN McContinues(t, "create", tAlbums[t]) ELSE McReturns(t, "err")
    /\ UNCHANGED <<stFile, stOpen, stSet, tTmp, crashes, crashedAt>>
    /\ UNCHANGED nonStoreVars

\* store.go 159-163: os.CreateTemp in the directory of s.path
McCreateTemp(t, ok) ==
    /\ tPc[t] = "create"
    /\ IF ok
         THEN /\ tTmp' = [tTmp EXCEPT ![t] = PartialFile(<<>>)]
              /\ McContinues(t, "write", tAlbums[t])
         ELSE /\ McReturns(t, "err")
              /\ UNCHANGED tTmp
    /\ UNCHANGED <<stFile, stOpen, stSet, crashes, crashedAt>>
    /\ UNCHANGED nonStoreVars

\* the file after one more element of the payload has reached it
Grown(f, payload) ==
    LET q == Append(f.elems, payload[Len(f.elems) + 1])
    IN  IF Len(q) = Len(payload) THEN ArrayFile(q) ELSE PartialFile(q)

\* mutant of McWrite: the payload is written straight to s.path
McWriteInPlace(t, ok) ==
    /\ tPc[t] = "write"
    /\ IF ok
         THEN /\ tTmp' = [tTmp EXCEPT ![t] = Grown(tTmp[t], tAlbums[t])]
              /\ stFile' = tTmp'[t]
              /\ McContinues(t, IF tTmp'[t].kind = "array" THEN "close" ELSE "write",
                             tAlbums[t])
         ELSE /\ tTmp' = [tTmp EXCEPT ![t] = AbsentFile]
              /\ McReturns(t, "err")
              /\ UNCHANGED stFile
    /\ UNCHANGED <<stOpen, stSet, crashes, crashedAt>>
    /\ UNCHANGED nonStoreVars

\* store.go 165-169: tmp.Write(payload); the bytes reach the temporary file
\* piece by piece; on an error the file is closed and removed
McWrite(t, ok) ==
    /\ tPc[t] = "write"
    /\ IF ok
         THEN /\ tTmp' = [tTmp EXCEPT ![t] = Grown(tTmp[t], tAlbums[t])]
              /\ McContinues(t, IF tTmp'[t].kind = "array" THEN "close" ELSE "write",
                             tAlbums[t])
         ELSE /\ tTmp' = [tTmp EXCEPT ![t] = AbsentFile]
              /\ McReturns(t, "err")
    /\ UNCHANGED <<stFile, stOpen, stSet, crashes, crashedAt>>
    /\ UNCHANGED nonStoreVars

\* store.go 171-174: tmp.Close()
McClose(t, ok) ==
    /\ tPc[t] = "close"
    /\ IF ok
         THEN /\ McContinues(t, "rename", tAlbums[t])
              /\ UNCHANGED tTmp
         ELSE /\ tTmp' = [tTmp EXCEPT ![t] = AbsentFile]
              /\ McReturns(t, "err")
    /\ UNCHANGED <<stFile, stOpen, stSet, crashes, crashedAt>>
    /\ UNCHANGED nonStoreVars

\* store.go 176-181: os.Rename(tmpPath, s.path), then return nil
McRename(t, ok) ==
    /\ tPc[t] = "rename"
    /\ IF ok
         THEN /\ stFile' = tTmp[t]
              /\ McReturns(t, "nil")
         ELSE /\ McReturns(t, "err")
              /\ UNCHANGED stFile
    /\ tTmp' = [tTmp EXCEPT ![t] = AbsentFile]
    /\ UNCHANGED <<stOpen, stSet, crashes, crashedAt>>
    /\ UNCHANGED nonStoreVars

\* the process dies: memory is lost, the file at s.path stays as it is (a
\* temporary file left behind is never read again), and the next run starts
\* with NewStore
Crash ==
    /\ stOpen = "open"
    /\ crashes < MaxCrashes
    /\ crashes' = crashes + 1
    /\ crashedAt' = IF stMu = 0 THEN "idle" ELSE tPc[stMu]
    /\ stOpen' = "unopened"
    /\ stSet' = {}
    /\ stMu' = 0
    /\ tPc' = [t \in Callers |-> "idle"]
    /\ tName' = [t \in Callers |-> 0]
    /\ tAlbums' = [t \in Callers |-> <<>>]
    /\ tTmp' = [t \in Callers |-> AbsentFile]
    /\ lastRet' = "none"
    /\ lastEarly' = FALSE
    /\ lastSeen' = "none"
    /\ fileAtCall' = [t \in Callers |-> AbsentFile]
    /\ UNCHANGED <<stFile, durable, anyFailed>>
    /\ UNCHANGED nonStoreVars

MarkCompletedStep ==
    \/ \E t \in Callers, name \in Names : McLock(t, name)
    \/ \E t \in Callers : McCheck(t)
    \/ \E t \in Callers, ok \in BOOLEAN : McMkdir(t, ok)
    \/ \E t \in Callers, ok \in BOOLEAN : McCreateTemp(t, ok)
    \/ \E t \in Callers, ok \in BOOLEAN : McWrite(t, ok)
    \/ \E t \in Callers, ok \in BOOLEAN : McClose(t, ok)
    \/ \E t \in Callers, ok \in BOOLEAN : McRename(t, ok)

StoreNext ==
    \/ NewStore
    \/ \E t \in Callers, name \in Names : IsCompleted(t, name)
    \/ MarkCompletedStep
    \/ Crash

LoadNext ==
    \/ NewStore
    \/ \E t \in Callers, name \in Names \cup {EmptyName} : IsCompleted(t, name)

(* ------------------------ shouldUseCachedAlbums ------------------------ *)

\* instants are counted in nanoseconds from the zero time.Time
ZeroTime == 0
Times == ZeroTime..MaxTime
\* time.Duration is a signed integer count of nanoseconds of fixed width
MinDuration == 0 - MaxDuration - 1
Durations == MinDuration..MaxDuration

\* time.Time.Sub: the difference, saturated to the range of Duration
Sub(t, u) ==
    LET d == t - u
    IN  IF d > MaxDuration THEN MaxDuration
        ELSE IF d < MinDuration THEN MinDuration
        ELSE d

\* time.Time.IsZero
IsZero(t) == t = ZeroTime

\* the body of shouldUseCachedAlbums as a function of its arguments
ShouldUse(c, d, n) ==
    IF d <= 0 THEN TRUE
    ELSE IF IsZero(c) THEN FALSE
    ELSE LET age == Sub(n, c)
         IN  IF age < 0 THEN TRUE ELSE age <= d

FreshInit ==
    /\ cachedAt \in Times
    /\ ttl \in Durations
    /\ now \in Times
    /\ freshPc = "called"
    /\ freshResult = FALSE

\* one call of shouldUseCachedAlbums(cachedAt, ttl, now)
ShouldUseCachedAlbums ==
    /\ freshPc = "called"
    /\ freshPc' = "returned"
    /\ freshResult' = ShouldUse(cachedAt, ttl, now)
    /\ UNCHANGED <<cachedAt, ttl, now>>
    /\ UNCHANGED nonFreshVars

FreshNext == ShouldUseCachedAlbums

(* ----------------------------- catalog.Cache --------------------------- *)

\* the clock counts half seconds from the zero time.Time; RFC3339 keeps whole seconds
TicksPerSecond == 2
\* the fetchedAt string of a cache file: a whole number of seconds s >= 0 stands
\* for the RFC3339 text of second s, and there are the empty string and a
\* string that is not RFC3339
EmptyStamp == 0 - 1
BadStamp == 0 - 2
\* time.Now().UTC().Format(time.RFC3339): the sub-second part is dropped
FormatRFC3339(t) == t \div TicksPerSecond
\* time.Parse(time.RFC3339, s) for a well-formed s
ParseRFC3339(s) == s * TicksPerSecond
\* time.Now() of a running system lies after the first second of year 1
Clock == TicksPerSecond..MaxTime

\* a Go slice of albums, and the JSON value it is marshalled to
NilItems == [isNil |-> TRUE, elems |-> <<>>]
Slice(q) == [isNil |-> FALSE, elems |-> q]
NullJson == [kind |-> "null", elems |-> <<>>]
ArrayJson(q) == [kind |-> "array", elems |-> q]
MarshalAlbums(items) == IF items.isNil THEN NullJson ELSE ArrayJson(items.elems)
UnmarshalAlbums(j) == IF j.kind = "null" THEN NilItems ELSE Slice(j.elems)
CacheItems == {NilItems, Slice(<<>>), Slice(<<1>>), Slice(<<MaxNames, 1>>)}

\* contents of c.path; kinds other than "payload" carry no fields
PayloadFile(at, albums) == [kind |-> "payload", at |-> at, albums |-> albums]
OtherFile(k) == [kind |-> k, at |-> EmptyStamp, albums |-> NullJson]
\* "mistyped" is well-formed JSON that does not fit the payload struct, "null" is
\* the JSON value null
AnyCacheFiles ==
    {OtherFile(k) : k \in {"absent", "unreadable", "malformed", "mistyped", "null"}}
      \cup {PayloadFile(at, MarshalAlbums(it)) :
              at \in {BadStamp, EmptyStamp, 0, 1}, it \in {NilItems, Slice(<<1>>)}}

\* mutant of LoadOf: a fetchedAt that does not parse is taken as no timestamp
LoadOfLenient(f) ==
    IF f.kind = "absent" THEN [err |-> "notexist", albums |-> NilItems, at |-> ZeroTime]
    ELSE IF f.kind \in {"unreadable", "malformed", "mistyped", "partial"}
      THEN [err |-> "other", albums |-> NilItems, at |-> ZeroTime]
    ELSE IF f.kind = "null" THEN [err |-> "nil", albums |-> NilItems, at |-> ZeroTime]
    ELSE IF f.at \in {EmptyStamp, BadStamp}
      THEN [err |-> "nil", albums |-> UnmarshalAlbums(f.albums), at |-> ZeroTime]
    ELSE [err |-> "nil", albums |-> UnmarshalAlbums(f.albums), at |-> ParseRFC3339(f.at)]

\* cache.go 58-79: the result of Load on file f as [err, albums, at]
LoadOf(f) ==
    IF f.kind = "absent" THEN [err |-> "notexist", albums |-> NilItems, at |-> ZeroTime]
    ELSE IF f.kind \in {"unreadable", "malformed", "mistyped", "partial"}
      THEN [err |-> "other", albums |-> NilItems, at |-> ZeroTime]
    ELSE IF f.kind = "null" THEN [err |-> "nil", albums |-> NilItems, at |-> ZeroTime]
    ELSE IF f.at = EmptyStamp
      THEN [err |-> "nil", albums |-> UnmarshalAlbums(f.albums), at |-> ZeroTime]
    ELSE IF f.at = BadStamp THEN [err |-> "other", albums |-> NilItems, at |-> ZeroTime]
    ELSE [err |-> "nil", albums |-> UnmarshalAlbums(f.albums), at |-> ParseRFC3339(f.at)]

CacheInitWith(files) ==
    /\ cFile \in files
    /\ svPc = "idle"
    /\ svItems = NilItems
    /\ svNow = 0
    /\ svTmp = "none"
    /\ svFileAtCall = OtherFile("absent")
    /\ svRet = "none"
    /\ ldErr = "none"
    /\ ldAlbums = NilItems
    /\ ldAt = ZeroTime
    /\ cCrashes = 0
    /\ cCrashedAt = "none"

CacheInit == CacheInitWith(AnyCacheFiles)

\* cache.go 58-79: Load, by the program or by another reader, at any moment
Load ==
    /\ ldErr' = LoadOf(cFile).err
    /\ ldAlbums' = LoadOf(cFile).albums
    /\ ldAt' = LoadOf(cFile).at
    /\ UNCHANGED <<cFile, svPc, svItems, svNow, svTmp, svFileAtCall, svRet,
                   cCrashes, cCrashedAt>>
    /\ UNCHANGED nonCacheVars

\* the result of an earlier Load is no longer at hand
LoadForgotten ==
    /\ ldErr' = "none"
    /\ ldAlbums' = NilItems
    /\ ldAt' = ZeroTime

\* Save returns r ("nil" or "err")
SvReturns(r) ==
    /\ svPc' = "idle"
    /\ svRet' = r
    /\ svTmp' = "none"
    /\ svFileAtCall' = OtherFile("absent")
    /\ LoadForgotten

\* Save goes on to position pc with temporary file tmp
SvContinues(pc, tmp) ==
    /\ svPc' = pc
    /\ svTmp' = tmp
    /\ svPc # "idle" => UNCHANGED svFileAtCall
    /\ LoadForgotten
    /\ UNCHANGED svRet

\* cache.go 82-90: Save is called; the payload is built and marshalled
SaveStart(items, t) ==
    /\ svPc = "idle"
    /\ svItems' = items
    /\ svNow' = t
    /\ svFileAtCall' = cFile
    /\ SvContinues("mkdir", "none")
    /\ UNCHANGED <<cFile, cCrashes, cCrashedAt>>
    /\ UNCHANGED nonCacheVars

\* mutant of SavedFile: no fetchedAt is written
SavedFileNoStamp == PayloadFile(EmptyStamp, MarshalAlbums(svItems))

\* cache.go 83-87: the file Save puts at c.path
SavedFile == PayloadFile(FormatRFC3339(svNow), MarshalAlbums(svItems))

\* cache.go 92-95: os.MkdirAll
SaveMkdir(ok) ==
    /\ svPc = "mkdir"
    /\ IF ok THEN SvContinues("create", "none") ELSE SvReturns("err")
    /\ UNCHANGED <<cFile, svItems, svNow, cCrashes, cCrashedAt>>
    /\ UNCHANGED nonCacheVars

\* cache.go 97-101: os.CreateTemp in the directory of c.path
SaveCreateTemp(ok) ==
    /\ svPc = "create"
    /\ IF ok THEN SvContinues("write", "empty") ELSE SvReturns("err")
    /\ UNCHANGED <<cFile, svItems, svNow, cCrashes, cCrashedAt>>
    /\ UNCHANGED nonCacheVars

\* mutant of SaveWrite: the bytes are written straight to c.path
SaveWriteInPlace(ok) ==
    /\ svPc = "write"
    /\ IF ok
         THEN /\ IF svTmp = "empty" THEN SvContinues("write", "partial")
                                    ELSE SvContinues("close", "complete")
              /\ cFile' = IF svTmp = "empty" THEN OtherFile("partial") ELSE SavedFile
         ELSE /\ SvReturns("err")
              /\ UNCHANGED cFile
    /\ UNCHANGED <<svItems, svNow, cCrashes, cCrashedAt>>
    /\ UNCHANGED nonCacheVars

\* cache.go 103-107: tmp.Write(b); the bytes reach the temporary file in two
\* pieces; on an error the file is closed and removed
SaveWrite(ok) ==
    /\ svPc = "write"
    /\ IF ok
         THEN IF svTmp = "empty" THEN SvContinues("write", "partial")
                                 ELSE SvContinues("close", "complete")
         ELSE SvReturns("err")
    /\ UNCHANGED <<cFile, svItems, svNow, cCrashes, cCrashedAt>>
    /\ UNCHANGED nonCacheVars

\* cache.go 108-111: tmp.Close()
SaveClose(ok) ==
    /\ svPc = "close"
    /\ IF ok THEN SvContinues("rename", svTmp) ELSE SvReturns("err")
    /\ UNCHANGED <<cFile, svItems, svNow, cCrashes, cCrashedAt>>
    /\ UNCHANGED nonCacheVars

\* cache.go 113-117: os.Rename(tmpPath, c.path), then return nil
SaveRename(ok) ==
    /\ svPc = "rename"
    /\ IF ok
         THEN /\ cFile' = SavedFile
              /\ SvReturns("nil")
         ELSE /\ SvReturns("err")
              /\ UNCHANGED cFile
    /\ UNCHANGED <<svItems, svNow, cCrashes, cCrashedAt>>
    /\ UNCHANGED nonCacheVars

\* the process dies inside or outside Save; the file at c.path stays as it is
CacheCrash ==
    /\ cCrashes < MaxCrashes
    /\ cCrashes' = cCrashes + 1
    /\ cCrashedAt' = svPc
    /\ svPc' = "idle"
    /\ svTmp' = "none"
    /\ svRet' = "none"
    /\ svItems' = NilItems
    /\ svNow' = 0
    /\ svFileAtCall' = OtherFile("absent")
    /\ LoadForgotten
    /\ UNCHANGED cFile
    /\ UNCHANGED nonCacheVars

SaveStep ==
    \/ \E items \in CacheItems, t \in Clock : SaveStart(items, t)
    \/ \E ok \in BOOLEAN : SaveMkdir(ok)
    \/ \E ok \in BOOLEAN : SaveCreateTemp(ok)
    \/ \E ok \in BOOLEAN : SaveWrite(ok)
    \/ \E ok \in BOOLEAN : SaveClose(ok)
    \/ \E ok \in BOOLEAN : SaveRename(ok)

CacheNext ==
    \/ Load
    \/ SaveStep
    \/ CacheCrash

(* ------------------------------ loadAlbums ----------------------------- *)

LaVariants == {"main", "ttl"}

LaInit ==
    /\ laVariant \in LaVariants
    /\ laLoad \in {"nil", "notexist", "other"}
    /\ laStamp \in Times
    /\ laTtl \in Durations
    /\ laNow \in Times
    /\ laRefresh \in BOOLEAN
    /\ laPc = "load"
    /\ laHasCached = FALSE
    /\ laCachedAt = ZeroTime
    /\ laFetch = "none"
    /\ laSave = "none"
    /\ laRet = "none"
    /\ laErr = FALSE

\* main.go 104-115: cache.Load() and the locals cached, cachedAt, hasCached
LaLoad ==
    /\ laPc = "load"
    /\ laPc' = "decide"
    /\ laHasCached' = (laLoad = "nil")
    /\ laCachedAt' = IF laLoad = "nil" THEN laStamp ELSE ZeroTime
    /\ UNCHANGED <<laVariant, laLoad, laStamp, laTtl, laNow, laRefresh, laFetch, laSave,
                   laRet, laErr>>
    /\ UNCHANGED nonLaVars

\* the condition under which the cached catalog is returned at once: main.go
\* 117 tests hasCached and RefreshAlbums only, the other copy also asks
\* shouldUseCachedAlbums
UsesCache ==
    /\ laHasCached
    /\ ~laRefresh
    /\ laVariant = "ttl" => ShouldUse(laCachedAt, laTtl, laNow)

\* main.go 117-123: return the cached catalog, or go on to the fetch
LaDecide ==
    /\ laPc = "decide"
    /\ IF UsesCache
         THEN /\ laPc' = "returned"
              /\ laRet' = "cached"
         ELSE /\ laPc' = "fetch"
              /\ UNCHANGED laRet
    /\ UNCHANGED <<laVariant, laLoad, laStamp, laTtl, laNow, laRefresh, laHasCached,
                   laCachedAt, laFetch, laSave, laErr>>
    /\ UNCHANGED nonLaVars

\* mutant of LaFetch: a failed fetch is an error even with a cached catalog
LaFetchNoFallback(ok) ==
    /\ laPc = "fetch"
    /\ laFetch' = IF ok THEN "ok" ELSE "failed"
    /\ IF ok
         THEN /\ laPc' = "save"
              /\ UNCHANGED <<laRet, laErr>>
         ELSE /\ laPc' = "returned"
              /\ laRet' = "nil"
              /\ laErr' = TRUE
    /\ UNCHANGED <<laVariant, laLoad, laStamp, laTtl, laNow, laRefresh, laHasCached,
                   laCachedAt, laSave>>
    /\ UNCHANGED nonLaVars

\* main.go 125-135: withRetryResult(ctx, 3, GetAlbums); on an error the cached
\* catalog is returned if there is one
LaFetch(ok) ==
    /\ laPc = "fetch"
    /\ laFetch' = IF ok THEN "ok" ELSE "failed"
    /\ IF ok
         THEN /\ laPc' = "save"
              /\ UNCHANGED <<laRet, laErr>>
         ELSE /\ laPc' = "returned"
              /\ laRet' = IF laHasCached THEN "cached" ELSE "nil"
              /\ laErr' = ~laHasCached
    /\ UNCHANGED <<laVariant, laLoad, laStamp, laTtl, laNow, laRefresh, laHasCached,
                   laCachedAt, laSave>>
    /\ UNCHANGED nonLaVars

\* mutant of LaSave: a failed Save fails loadAlbums
LaSaveFatal(ok) ==
    /\ laPc = "save"
    /\ laSave' = IF ok THEN "ok" ELSE "failed"
    /\ laPc' = "returned"
    /\ laRet' = IF ok THEN "fetched" ELSE "nil"
    /\ laErr' = ~ok
    /\ UNCHANGED <<laVariant, laLoad, laStamp, laTtl, laNow, laRefresh, laHasCached,
                   laCachedAt, laFetch>>
    /\ UNCHANGED nonLaVars

\* main.go 137-144: cache.Save(albums), whose error is only logged
LaSave(ok) ==
    /\ laPc = "save"
    /\ laSave' = IF ok THEN "ok" ELSE "failed"
    /\ laPc' = "returned"
    /\ laRet' = "fetched"
    /\ laErr' = FALSE
    /\ UNCHANGED <<laVariant, laLoad, laStamp, laTtl, laNow, laRefresh, laHasCached,
                   laCachedAt, laFetch>>
    /\ UNCHANGED nonLaVars

LaNext ==
    \/ LaLoad
    \/ LaDecide
    \/ \E ok \in BOOLEAN : LaFetch(ok)
    \/ \E ok \in BOOLEAN : LaSave(ok)

(* -------------------------- download.Downloader ------------------------ *)

\* download.go 179: the least distance of two progress reports
ThrottleMs == 700
\* the clock advances in steps of half that distance
TickMs == ThrottleMs \div 2
\* lastProgress while it is the zero time.Time
NoTime == 0 - 1
\* resp.ContentLength when the response declares no length
Undeclared == 0 - 1

AbsentDst == [state |-> "absent", len |-> 0]
OldDst == [state |-> "old", len |-> 1]
NewDst(n) == [state |-> "new", len |-> n]

\* Content-Type values, as sequences of words
ContentTypes == {<<>>, <<"audio/mpeg">>, <<"Audio/MPEG">>, <<"audio/wav">>,
                 <<"AUDIO/MPEG", "; charset=binary">>}
\* strings.ToLower, word by word
LowerWord(w) ==
    IF w \in {"Audio/MPEG", "AUDIO/MPEG"} THEN "audio/mpeg" ELSE w
ToLower(ct) == [k \in 1..Len(ct) |-> LowerWord(ct[k])]
\* mutant of IsMpeg: the comparison is case-sensitive
IsMpegCaseSensitive(ct) == \E k \in 1..Len(ct) : ct[k] = "audio/mpeg"
\* download.go 140: strings.Contains(strings.ToLower(contentType), "audio/mpeg")
IsMpeg(ct) == \E k \in 1..Len(ToLower(ct)) : ToLower(ct)[k] = "audio/mpeg"

\* mutant of StatusOk: the status is not examined
StatusOkAlways(st) == st # "doerr"
\* download.go 88: the status is in 200..299
StatusOk(st) == st = "2xx"

\* mutant of DueReport: every chunk is reported
DueReportAlways(last, t) == TRUE
\* download.go 179: a report is due
DueReport(last, t) == last = NoTime \/ t - last >= ThrottleMs

\* the body reader of net/http: with a declared length the body yields at most
\* that many bytes, and a stream that ends earlier ends in io.ErrUnexpectedEOF
Deliverable == IF dlDeclared = Undeclared \/ dlBody < dlDeclared THEN dlBody ELSE dlDeclared
EndsInEOF == dlDeclared = Undeclared \/ dlBody >= dlDeclared

DlInit ==
    /\ dlSong \in BOOLEAN
    /\ dlStatus \in {"2xx", "other", "doerr"}
    /\ dlDeclared \in Undeclared..MaxChunks
    /\ dlBody \in 0..MaxChunks
    /\ dlHasProgress \in BOOLEAN
    /\ dlCt \in (IF dlSong THEN ContentTypes ELSE {<<>>})
    /\ dlDstBefore \in {AbsentDst, OldDst}
    /\ dlDst = dlDstBefore
    /\ dlPc = "do"
    /\ dlRead = 0
    /\ dlWritten = 0
    /\ dlTotal = 0
    /\ dlClock = 0
    /\ dlLast = NoTime
    /\ dlCalls = <<>>
    /\ dlErr = "none"
    /\ dlResBytes = 0
    /\ sgMp3 = FALSE
    /\ sgFlac = FALSE
    /\ sgFfmpeg = FALSE
    /\ sgType = "none"

\* the call fails with error e
DlFails(e) ==
    /\ dlPc' = "returned"
    /\ dlErr' = e

\* time passes while the body is copied
DlTick ==
    /\ dlPc = "copy"
    /\ dlClock < MaxTicks * TickMs
    /\ dlClock' = dlClock + TickMs
    /\ UNCHANGED <<dlSong, dlStatus, dlDeclared, dlBody, dlHasProgress, dlCt, dlDstBefore,
                   dlDst, dlPc, dlRead, dlWritten, dlTotal, dlLast, dlCalls, dlErr,
                   dlResBytes, sgMp3, sgFlac, sgFfmpeg, sgType>>
    /\ UNCHANGED nonDlVars

\* download.go 75-90: started = time.Now(), the request, and the status check;
\* the exchange with the server takes k >= 1 ticks
DlDo(k) ==
    /\ dlPc = "do"
    /\ dlClock' = k * TickMs
    /\ IF dlStatus = "doerr" THEN DlFails("do")
       ELSE IF ~StatusOk(dlStatus) THEN DlFails("status")
       ELSE /\ dlPc' = "mkdir"
            /\ UNCHANGED dlErr
    /\ UNCHANGED <<dlSong, dlStatus, dlDeclared, dlBody, dlHasProgress, dlCt, dlDstBefore,
                   dlDst, dlRead, dlWritten, dlTotal, dlLast, dlCalls,
                   dlResBytes, sgMp3, sgFlac, sgFfmpeg, sgType>>
    /\ UNCHANGED nonDlVars

\* download.go 92-94: os.MkdirAll
DlMkdir(ok) ==
    /\ dlPc = "mkdir"
    /\ IF ok THEN dlPc' = "create" /\ UNCHANGED dlErr ELSE DlFails("mkdir")
    /\ UNCHANGED <<dlSong, dlStatus, dlDeclared, dlBody, dlHasProgress, dlCt, dlDstBefore,
                   dlDst, dlRead, dlWritten, dlTotal, dlClock, dlLast, dlCalls,
                   dlResBytes, sgMp3, sgFlac, sgFfmpeg, sgType>>
    /\ UNCHANGED nonDlVars

\* download.go 96-105: os.Create truncates or creates dstPath; totalBytes
DlCreate(ok) ==
    /\ dlPc = "create"
    /\ IF ok
         THEN /\ dlPc' = "copy"
              /\ dlDst' = NewDst(0)
              /\ dlTotal' = IF dlDeclared <= 0 THEN 0 - 1 ELSE dlDeclared
              /\ UNCHANGED dlErr
         ELSE /\ DlFails("create")
              /\ UNCHANGED <<dlDst, dlTotal>>
    /\ UNCHANGED <<dlSong, dlStatus, dlDeclared, dlBody, dlHasProgress, dlCt, dlDstBefore,
                   dlRead, dlWritten, dlClock, dlLast, dlCalls,
                   dlResBytes, sgMp3, sgFlac, sgFfmpeg, sgType>>
    /\ UNCHANGED nonDlVars

ReadOutcomes == {"data", "dataEOF", "end", "err"}
WriteOutcomes == {"ok", "short", "err"}

\* download.go 163-195: one iteration of the loop of copyWithProgress. The read
\* gives one chunk ("data"), the last chunk together with io.EOF ("dataEOF"),
\* no bytes and the end of the stream ("end"), or no bytes and a network error
\* ("err"); the write takes the chunk ("ok"), takes nothing without an error
\* ("short"), or fails ("err").
DlCopy(r, w) ==
    /\ dlPc = "copy"
    /\ r = "data" => dlRead < Deliverable
    /\ r = "dataEOF" => (dlRead + 1 = Deliverable /\ EndsInEOF)
    /\ r = "end" => dlRead = Deliverable
    /\ r \in {"end", "err"} => w = "ok"
    /\ LET n == IF r \in {"data", "dataEOF"} THEN 1 ELSE 0
           wrote == n > 0 /\ w = "ok"
           written == IF wrote THEN dlWritten + 1 ELSE dlWritten
           due == wrote /\ dlHasProgress /\ DueReport(dlLast, dlClock)
           during == IF due
                       THEN Append(dlCalls, [b |-> written, total |-> dlTotal,
                                             at |-> dlClock, final |-> FALSE])
                       ELSE dlCalls
           eof == (n = 0 \/ wrote) /\ (r = "dataEOF" \/ (r = "end" /\ EndsInEOF))
           failed == (n > 0 /\ ~wrote) \/ r = "err" \/ (r = "end" /\ ~EndsInEOF)
       IN  /\ dlRead' = dlRead + n
           /\ dlWritten' = written
           /\ dlDst' = NewDst(written)
           /\ dlLast' = IF due THEN dlClock ELSE dlLast
           /\ dlCalls' = IF eof /\ dlHasProgress
                           THEN Append(during, [b |-> written, total |-> dlTotal,
                                                at |-> dlClock, final |-> TRUE])
                           ELSE during
           /\ IF failed THEN DlFails("copy") /\ UNCHANGED dlResBytes
              ELSE IF eof
                THEN /\ dlPc' = IF dlSong THEN "type" ELSE "returned"
                     /\ dlErr' = "nil"
                     /\ dlResBytes' = written
                ELSE UNCHANGED <<dlPc, dlErr, dlResBytes>>
    /\ UNCHANGED <<dlSong, dlStatus, dlDeclared, dlBody, dlHasProgress, dlCt, dlDstBefore,
                   dlTotal, dlClock, sgMp3, sgFlac, sgFfmpeg, sgType>>
    /\ UNCHANGED nonDlVars

\* download.go 139-145: the content type names MPEG audio; os.Rename to <name>.mp3
SgRename(ok) ==
    /\ dlPc = "type"
    /\ IsMpeg(dlCt)
    /\ IF ok
         THEN /\ dlPc' = "returned"
              /\ dlDst' = AbsentDst
              /\ sgMp3' = TRUE
              /\ sgType' = ".mp3"
              /\ UNCHANGED dlErr
         ELSE /\ DlFails("rename")
              /\ UNCHANGED <<dlDst, sgMp3, sgType>>
    /\ UNCHANGED <<dlSong, dlStatus, dlDeclared, dlBody, dlHasProgress, dlCt, dlDstBefore,
                   dlRead, dlWritten, dlTotal, dlClock, dlLast, dlCalls, dlResBytes,
                   sgFlac, sgFfmpeg>>
    /\ UNCHANGED nonDlVars

\* download.go 147-150: otherwise audio.WAVToFLAC writes <name>.flac
SgConvert(ok) ==
    /\ dlPc = "type"
    /\ ~IsMpeg(dlCt)
    /\ sgFfmpeg' = TRUE
    /\ IF ok
         THEN /\ dlPc' = "remove"
              /\ sgFlac' = TRUE
              /\ UNCHANGED dlErr
         ELSE /\ DlFails("ffmpeg")
              /\ UNCHANGED sgFlac
    /\ UNCHANGED <<dlSong, dlStatus, dlDeclared, dlBody, dlHasProgress, dlCt, dlDstBefore,
                   dlDst, dlRead, dlWritten, dlTotal, dlClock, dlLast, dlCalls, dlResBytes,
                   sgMp3, sgType>>
    /\ UNCHANGED nonDlVars

\* download.go 151-155: os.Remove(wavPath), then the .flac path is returned
SgRemove(ok) ==
    /\ dlPc = "remove"
    /\ IF ok
         THEN /\ dlPc' = "returned"
              /\ dlDst' = AbsentDst
              /\ sgType' = ".flac"
              /\ UNCHANGED dlErr
         ELSE /\ DlFails("remove")
              /\ UNCHANGED <<dlDst, sgType>>
    /\ UNCHANGED <<dlSong, dlStatus, dlDeclared, dlBody, dlHasProgress, dlCt, dlDstBefore,
                   dlRead, dlWritten, dlTotal, dlClock, dlLast, dlCalls, dlResBytes,
                   sgMp3, sgFlac, sgFfmpeg>>
    /\ UNCHANGED nonDlVars

DlNext ==
    \/ DlTick
    \/ \E k \in 1..2 : DlDo(k)
    \/ \E ok \in BOOLEAN : DlMkdir(ok)
    \/ \E ok \in BOOLEAN : DlCreate(ok)
    \/ \E r \in ReadOutcomes, w \in WriteOutcomes : DlCopy(r, w)
    \/ \E ok \in BOOLEAN : SgRename(ok)
    \/ \E ok \in BOOLEAN : SgConvert(ok)
    \/ \E ok \in BOOLEAN : SgRemove(ok)


(* ------------- withRetry and withRetryResult side by side -------------- *)

\* Both executors are run on the same attempt bound eqN, the same outcomes
\* (eqOut[c]: the c-th invocation of fn succeeds) and the same cancellation
\* timing: ctx is cancelled while the eqCancelAt-th wait is pending, never if
\* eqCancelAt = 0. The timer of a wait has not fired when its select starts.
CtxDoneAtSelect(i) == eqCancelAt # 0 /\ eqCancelAt <= i

ExecStart == [pc |-> "start", n |-> 0, i |-> 0, calls |-> 0, err |-> NilErr,
              ret |-> NilErr, val |-> 0]

\* main.go 564-569 / 588-593: coerce attempts; var err error; i := 1
ExecEnter(s, n) == [s EXCEPT !.pc = "loop", !.n = CoerceAttempts(n), !.i = 1]

\* main.go 569-583: the loop condition and one iteration of withRetry
WithRetryIter(s) ==
    IF s.i > s.n
      THEN [s EXCEPT !.pc = "returned", !.ret = s.err]
      ELSE LET c == s.calls + 1
               e == IF eqOut[c] THEN NilErr ELSE OpErr(c)
           IN  IF e = NilErr
                 THEN [s EXCEPT !.calls = c, !.err = e, !.pc = "returned", !.ret = NilErr]
               ELSE IF IsLastAttempt(s.i, s.n)
                 THEN [s EXCEPT !.calls = c, !.err = e, !.pc = "returned", !.ret = e]
               ELSE IF CtxDoneAtSelect(s.i)
                 THEN [s EXCEPT !.calls = c, !.err = e, !.pc = "returned", !.ret = CtxErr]
               ELSE [s EXCEPT !.calls = c, !.err = e, !.i = s.i + 1]

\* mutant of WithRetryResultIter: the select has no ctx.Done() case
WithRetryResultIterNoDone(s) ==
    IF s.i > s.n
      THEN [s EXCEPT !.pc = "returned", !.ret = s.err, !.val = 0]
      ELSE LET c == s.calls + 1
               callErr == IF eqOut[c] THEN NilErr ELSE OpErr(c)
           IN  IF callErr = NilErr
                 THEN [s EXCEPT !.calls = c, !.pc = "returned", !.ret = NilErr,
                                !.val = OpValue(c)]
               ELSE IF IsLastAttempt(s.i, s.n)
                 THEN [s EXCEPT !.calls = c, !.err = callErr, !.pc = "returned",
                                !.ret = callErr, !.val = 0]
               ELSE [s EXCEPT !.calls = c, !.err = callErr, !.i = s.i + 1]

\* main.go 593-609: the loop condition and one iteration of withRetryResult
WithRetryResultIter(s) ==
    IF s.i > s.n
      THEN [s EXCEPT !.pc = "returned", !.ret = s.err, !.val = 0]
      ELSE LET c == s.calls + 1
               callErr == IF eqOut[c] THEN NilErr ELSE OpErr(c)
           IN  IF callErr = NilErr
                 THEN [s EXCEPT !.calls = c, !.pc = "returned", !.ret = NilErr,
                                !.val = OpValue(c)]
               ELSE IF IsLastAttempt(s.i, s.n)
                 THEN [s EXCEPT !.calls = c, !.err = callErr, !.pc = "returned",
                                !.ret = callErr, !.val = 0]
               ELSE IF CtxDoneAtSelect(s.i)
                 THEN [s EXCEPT !.calls = c, !.err = callErr, !.pc = "returned",
                                !.ret = CtxErr, !.val = 0]
               ELSE [s EXCEPT !.calls = c, !.err = callErr, !.i = s.i + 1]

EqInit ==
    /\ eqN \in (0 - 1)..MaxAttempts
    /\ eqOut \in [1..MaxAttempts -> BOOLEAN]
    /\ eqCancelAt \in 0..MaxAttempts
    /\ eqA = ExecStart
    /\ eqB = ExecStart

EqCallRetry ==
    /\ eqA.pc = "start"
    /\ eqA' = ExecEnter(eqA, eqN)
    /\ UNCHANGED <<eqN, eqOut, eqCancelAt, eqB>>
    /\ UNCHANGED nonEqVars

EqStepRetry ==
    /\ eqA.pc = "loop"
    /\ eqA' = WithRetryIter(eqA)
    /\ UNCHANGED <<eqN, eqOut, eqCancelAt, eqB>>
    /\ UNCHANGED nonEqVars

EqCallRetryResult ==
    /\ eqB.pc = "start"
    /\ eqB' = ExecEnter(eqB, eqN)
    /\ UNCHANGED <<eqN, eqOut, eqCancelAt, eqA>>
    /\ UNCHANGED nonEqVars

EqStepRetryResult ==
    /\ eqB.pc = "loop"
    /\ eqB' = WithRetryResultIter(eqB)
    /\ UNCHANGED <<eqN, eqOut, eqCancelAt, eqA>>
    /\ UNCHANGED nonEqVars

EqNext ==
    \/ EqCallRetry
    \/ EqStepRetry
    \/ EqCallRetryResult
    \/ EqStepRetryResult


(* ------------------------------ processAlbum --------------------------- *)

\* the albums handed to the jobs of one run, by CID (main.go 70-81: one job
\* per selected album); two albums are enough for one to meet the other
Cids == {1, 2}
\* display names: album 1 is called "A", album 2 has the same name or another
AlbumNames == {"A", "B"}
\* main.go 397, 411, 428, 438, 451: the attempt bound given to the executors
JobAttempts == 3

\* a job that has been handed its album and has not started yet
JobFresh == [pc |-> "check", cover |-> FALSE, listed |-> FALSE, songs |-> 0, song |-> 0,
             log |-> <<>>, try |-> 0, err |-> "none", done |-> 0, net |-> FALSE,
             file |-> FALSE, marks |-> 0, ret |-> "none", skipped |-> FALSE]

\* the job returns r; its locals are gone
JReturns(s, r) == [s EXCEPT !.pc = "returned", !.ret = r, !.cover = FALSE, !.listed = FALSE,
                            !.songs = 0, !.song = 0, !.log = <<>>, !.try = 0]

JobInit ==
    /\ jbName \in {f \in [Cids -> AlbumNames] : f[1] = "A"}
    /\ jbDone \in SUBSET Cids
    /\ jbSet = {jbName[c] : c \in jbDone}
    /\ jbCtxDone = FALSE
    /\ job = [j \in Cids |-> JobFresh]

\* cancel() of the context of the run
JobCancel ==
    /\ ~jbCtxDone
    /\ \E j \in Cids : job[j].pc # "returned"
    /\ jbCtxDone' = TRUE
    /\ UNCHANGED <<jbName, jbDone, jbSet, job>>
    /\ UNCHANGED nonJobVars

\* mutant of JCheck: the completion set is not consulted
JCheckNoSkip(j) ==
    /\ job[j].pc = "check"
    /\ job' = [job EXCEPT ![j] = [job[j] EXCEPT !.pc = "mkdir"]]
    /\ UNCHANGED <<jbName, jbDone, jbSet, jbCtxDone>>
    /\ UNCHANGED nonJobVars

\* main.go 382-385: store.IsCompleted(album.Name); skip and return nil
JCheck(j) ==
    /\ job[j].pc = "check"
    /\ job' = [job EXCEPT ![j] =
                 IF jbName[j] \in jbSet
                   THEN [JReturns(job[j], "nil") EXCEPT !.skipped = TRUE]
                   ELSE [job[j] EXCEPT !.pc = "mkdir"]]
    /\ UNCHANGED <<jbName, jbDone, jbSet, jbCtxDone>>
    /\ UNCHANGED nonJobVars

\* main.go 389-392: os.MkdirAll(albumDir)
JMkdir(j, ok) ==
    /\ job[j].pc = "mkdir"
    /\ LET s == [job[j] EXCEPT !.file = TRUE]
       IN  job' = [job EXCEPT ![j] = IF ok THEN [s EXCEPT !.pc = "cover"]
                                            ELSE JReturns(s, "mkdir")]
    /\ UNCHANGED <<jbName, jbDone, jbSet, jbCtxDone>>
    /\ UNCHANGED nonJobVars

\* mutant of JCover: a failure of the cover step is ignored
JCoverErrorIgnored(j, ok) ==
    /\ job[j].pc = "cover"
    /\ LET s == [job[j] EXCEPT !.net = TRUE]
       IN  job' = [job EXCEPT ![j] = [s EXCEPT !.pc = "songs", !.cover = ok]]
    /\ UNCHANGED <<jbName, jbDone, jbSet, jbCtxDone>>
    /\ UNCHANGED nonJobVars

\* main.go 394-409: the cover step: withRetry(ctx, 3, DownloadToFile), then
\* audio.ConvertToPNG and os.Remove of the JPEG
JCover(j, ok) ==
    /\ job[j].pc = "cover"
    /\ LET s == [job[j] EXCEPT !.net = TRUE]
       IN  job' = [job EXCEPT ![j] = IF ok THEN [s EXCEPT !.pc = "songs", !.cover = TRUE]
                                            ELSE JReturns(s, "cover")]
    /\ UNCHANGED <<jbName, jbDone, jbSet, jbCtxDone>>
    /\ UNCHANGED nonJobVars

\* main.go 411-423: withRetryResult(ctx, 3, GetAlbumSongs) returns n songs
JSongs(j, ok, n) ==
    /\ job[j].pc = "songs"
    /\ ~ok => n = 0
    /\ job' = [job EXCEPT ![j] =
                 IF ok
                   THEN [job[j] EXCEPT !.listed = TRUE, !.songs = n,
                                       !.song = IF n = 0 THEN 0 ELSE 1,
                                       !.pc = IF n = 0 THEN "mark" ELSE "detail"]
                   ELSE JReturns(job[j], "songs")]
    /\ UNCHANGED <<jbName, jbDone, jbSet, jbCtxDone>>
    /\ UNCHANGED nonJobVars

\* main.go 428-436: withRetryResult(ctx, 3, GetSongDetail); lyric: LyricURL # ""
JDetail(j, ok, lyric) ==
    /\ job[j].pc = "detail"
    /\ ~ok => ~lyric
    /\ job' = [job EXCEPT ![j] =
                 IF ok
                   THEN [job[j] EXCEPT !.log = <<"detail">>, !.try = 1, !.err = "none",
                                       !.pc = IF lyric THEN "lyric" ELSE "asset"]
                   ELSE JReturns(job[j], "detail")]
    /\ UNCHANGED <<jbName, jbDone, jbSet, jbCtxDone>>
    /\ UNCHANGED nonJobVars

\* main.go 437-443: withRetry(ctx, 3, DownloadToFile) of the lyric
JLyric(j, ok) ==
    /\ job[j].pc = "lyric"
    /\ job' = [job EXCEPT ![j] =
                 IF ok THEN [job[j] EXCEPT !.log = Append(@, "lyric"), !.pc = "asset"]
                       ELSE JReturns(job[j], "lyric")]
    /\ UNCHANGED <<jbName, jbDone, jbSet, jbCtxDone>>
    /\ UNCHANGED nonJobVars

\* main.go 451-457 with 569-583: the closure handed to withRetry returned the
\* error e in attempt s.try: after the last attempt, or with ctx cancelled by
\* the end of the wait, withRetry fails and so does the job; otherwise the
\* closure is invoked again
JAttemptFailed(s, e) ==
    IF s.try = JobAttempts \/ jbCtxDone
      THEN JReturns([s EXCEPT !.err = e], "asset")
      ELSE [s EXCEPT !.err = e, !.pc = "asset", !.try = s.try + 1]

\* download.go 134-137: the transfer inside DownloadSongWithProgress
JTransfer(j, ok) ==
    /\ job[j].pc = "asset"
    /\ job' = [job EXCEPT ![j] = IF ok THEN [job[j] EXCEPT !.pc = "post"]
                                       ELSE JAttemptFailed(job[j], "transfer")]
    /\ UNCHANGED <<jbName, jbDone, jbSet, jbCtxDone>>
    /\ UNCHANGED nonJobVars

PostOutcomes == {"mp3", "flac", "rename", "ffmpeg", "remove"}

\* download.go 139-155: rename to .mp3, or WAVToFLAC and os.Remove; out is the
\* file type produced or the call that failed
JPost(j, out) ==
    /\ job[j].pc = "post"
    /\ job' = [job EXCEPT ![j] =
                 IF out \in {"mp3", "flac"}
                   THEN [job[j] EXCEPT !.log = Append(@, "asset"), !.err = "nil",
                                       !.pc = "meta"]
                   ELSE JAttemptFailed(job[j], out)]
    /\ UNCHANGED <<jbName, jbDone, jbSet, jbCtxDone>>
    /\ UNCHANGED nonJobVars

\* main.go 459-483: metadata.Apply, then the next song or the end of the loop
JMeta(j, ok) ==
    /\ job[j].pc = "meta"
    /\ job' = [job EXCEPT ![j] =
                 IF ok
                   THEN [job[j] EXCEPT !.done = @ + 1, !.log = <<>>, !.try = 0,
                                       !.song = IF @ = job[j].songs THEN @ ELSE @ + 1,
                                       !.pc = IF job[j].song = job[j].songs THEN "mark"
                                                                          ELSE "detail"]
                   ELSE JReturns(job[j], "meta")]
    /\ UNCHANGED <<jbName, jbDone, jbSet, jbCtxDone>>
    /\ UNCHANGED nonJobVars

\* main.go 485-490 with store.go 135-181: store.MarkCompleted(album.Name)
\* returns nil at once for a name in the set; otherwise it adds the name and
\* persists the set, which succeeds or fails
JMark(j, ok) ==
    /\ job[j].pc = "mark"
    /\ jbName[j] \in jbSet => ok
    /\ jbSet' = jbSet \cup {jbName[j]}
    /\ LET s == [job[j] EXCEPT !.marks = @ + 1]
       IN  job' = [job EXCEPT ![j] = JReturns(s, IF ok THEN "nil" ELSE "mark")]
    /\ UNCHANGED <<jbName, jbDone, jbCtxDone>>
    /\ UNCHANGED nonJobVars

JobNext ==
    \/ JobCancel
    \/ \E j \in Cids : JCheck(j)
    \/ \E j \in Cids, ok \in BOOLEAN : JMkdir(j, ok)
    \/ \E j \in Cids, ok \in BOOLEAN : JCover(j, ok)
    \/ \E j \in Cids, ok \in BOOLEAN, n \in 0..MaxSongs : JSongs(j, ok, n)
    \/ \E j \in Cids, ok \in BOOLEAN, lyric \in BOOLEAN : JDetail(j, ok, lyric)
    \/ \E j \in Cids, ok \in BOOLEAN : JLyric(j, ok)
    \/ \E j \in Cids, ok \in BOOLEAN : JTransfer(j, ok)
    \/ \E j \in Cids, out \in PostOutcomes : JPost(j, out)
    \/ \E j \in Cids, ok \in BOOLEAN : JMeta(j, ok)
    \/ \E j \in Cids, ok \in BOOLEAN : JMark(j, ok)


(* ------------------- a transfer retried into one path ------------------ *)

\* the destination file byte by byte: byte k of the body received in attempt
\* t is <<t, k>>
NoFile == [exists |-> FALSE, bytes |-> <<>>]
FileOf(q) == [exists |-> TRUE, bytes |-> q]
BodyByte(t, k) == <<t, k>>
\* file.Write at the offset of the open handle
WriteAt(q, off, b) == IF off < Len(q) THEN [q EXCEPT ![off + 1] = b] ELSE Append(q, b)

RtInit ==
    /\ rtFile = NoFile
    /\ rtLeft = NoFile
    /\ rtTry = 1
    /\ rtPc = "request"
    /\ rtBody = 0
    /\ rtOff = 0
    /\ rtErr = "none"

\* main.go 569-583: the attempt has failed; after the last attempt, or with
\* ctx cancelled by the end of the wait, withRetry returns the error;
\* otherwise the closure is invoked again with the same dstPath
RtAttemptFailed(cancelled) ==
    /\ rtLeft' = rtFile'
    /\ rtBody' = 0
    /\ rtOff' = 0
    /\ IF rtTry = JobAttempts \/ cancelled
         THEN /\ rtPc' = "returned"
              /\ rtErr' = "failed"
              /\ UNCHANGED rtTry
         ELSE /\ rtPc' = "request"
              /\ rtTry' = rtTry + 1
              /\ UNCHANGED rtErr

\* download.go 77-94: the request, the status check and os.MkdirAll; a
\* response with a status in 2xx announces a body of n bytes
RtRequest(ok, n, cancelled) ==
    /\ rtPc = "request"
    /\ UNCHANGED rtFile
    /\ IF ok
         THEN /\ rtPc' = "create"
              /\ rtBody' = n
              /\ UNCHANGED <<rtLeft, rtTry, rtOff, rtErr>>
         ELSE /\ n = 0
              /\ RtAttemptFailed(cancelled)
    /\ UNCHANGED nonRtVars

\* mutant of RtCreate: the file is opened without O_TRUNC
RtCreateNoTrunc(ok, cancelled) ==
    /\ rtPc = "create"
    /\ IF ok
         THEN /\ rtFile' = FileOf(rtFile.bytes)
              /\ rtPc' = "copy"
              /\ rtOff' = 0
              /\ UNCHANGED <<rtLeft, rtTry, rtBody, rtErr>>
         ELSE /\ UNCHANGED rtFile
              /\ RtAttemptFailed(cancelled)
    /\ UNCHANGED nonRtVars

\* download.go 96-100: os.Create(dstPath) creates the file or truncates it
RtCreate(ok, cancelled) ==
    /\ rtPc = "create"
    /\ IF ok
         THEN /\ rtFile' = FileOf(<<>>)
              /\ rtPc' = "copy"
              /\ rtOff' = 0
              /\ UNCHANGED <<rtLeft, rtTry, rtBody, rtErr>>
         ELSE /\ UNCHANGED rtFile
              /\ RtAttemptFailed(cancelled)
    /\ UNCHANGED nonRtVars

\* download.go 164-175: one chunk is read from the body and written to the file
RtWrite ==
    /\ rtPc = "copy"
    /\ rtOff < rtBody
    /\ rtFile' = FileOf(WriteAt(rtFile.bytes, rtOff, BodyByte(rtTry, rtOff + 1)))
    /\ rtOff' = rtOff + 1
    /\ UNCHANGED <<rtLeft, rtTry, rtPc, rtBody, rtErr>>
    /\ UNCHANGED nonRtVars

\* download.go 107-110 with 167-175, 193: a read or a write fails; the
\* transfer returns the error and leaves the file as it is
RtBreak(cancelled) ==
    /\ rtPc = "copy"
    /\ UNCHANGED rtFile
    /\ RtAttemptFailed(cancelled)
    /\ UNCHANGED nonRtVars

\* download.go 186-191, 112-116: the stream ends and the transfer returns nil
RtEof ==
    /\ rtPc = "copy"
    /\ rtOff = rtBody
    /\ rtPc' = "returned"
    /\ rtErr' = "nil"
    /\ UNCHANGED <<rtFile, rtLeft, rtTry, rtBody, rtOff>>
    /\ UNCHANGED nonRtVars

RtNext ==
    \/ \E ok \in BOOLEAN, n \in 0..MaxChunks, c \in BOOLEAN : RtRequest(ok, n, c)
    \/ \E ok \in BOOLEAN, c \in BOOLEAN : RtCreate(ok, c)
    \/ RtWrite
    \/ \E c \in BOOLEAN : RtBreak(c)
    \/ RtEof


(* --------------------- CompletedAlbumStore (TUI) ----------------------- *)

\* Date.now() in milliseconds; the calls of one run fall into a few of them
TsClock == 0..MaxCallers
\* the album name that job t marks: the names of different jobs differ
TsNameOf(t) == t

TsInit ==
    /\ tsSet = {}
    /\ tsFile = AbsentFile
    /\ tsTmp = [ms \in TsClock |-> AbsentFile]
    /\ tsNow = 0
    /\ tsPc = [t \in Callers |-> "idle"]
    /\ tsSorted = [t \in Callers |-> <<>>]
    /\ tsTmpPath = [t \in Callers |-> 0]

\* a millisecond passes
TsTick ==
    /\ tsNow < MaxCallers
    /\ \E t \in Callers : tsPc[t] \notin {"resolved", "rejected"}
    /\ tsNow' = tsNow + 1
    /\ UNCHANGED <<tsSet, tsFile, tsTmp, tsPc, tsSorted, tsTmpPath>>
    /\ UNCHANGED nonTsVars

\* markCompleted, lines 30-37: markCompleted up to its first await: the presence check,
\* completed.add(name), the sorted copy, and the call of mkdir
TsCall(t) ==
    /\ tsPc[t] = "idle"
    /\ IF TsNameOf(t) \in tsSet
         THEN /\ tsPc' = [tsPc EXCEPT ![t] = "resolved"]
              /\ UNCHANGED <<tsSet, tsSorted>>
         ELSE /\ tsSet' = tsSet \cup {TsNameOf(t)}
              /\ tsSorted' = [tsSorted EXCEPT ![t] = SortedSeq(tsSet')]
              /\ tsPc' = [tsPc EXCEPT ![t] = "mkdir"]
    /\ UNCHANGED <<tsFile, tsTmp, tsNow, tsTmpPath>>
    /\ UNCHANGED nonTsVars

\* markCompleted, lines 37-39: mkdir has resolved; tmpPath is made from Date.now() and
\* writeFile is called
TsNameTemp(t) ==
    /\ tsPc[t] = "mkdir"
    /\ tsTmpPath' = [tsTmpPath EXCEPT ![t] = tsNow]
    /\ tsPc' = [tsPc EXCEPT ![t] = "write"]
    /\ UNCHANGED <<tsSet, tsFile, tsTmp, tsNow, tsSorted>>
    /\ UNCHANGED nonTsVars

\* markCompleted, lines 39-40: writeFile has written JSON.stringify(sorted) to tmpPath and
\* resolved; rename is called
TsWritten(t) ==
    /\ tsPc[t] = "write"
    /\ tsTmp' = [tsTmp EXCEPT ![tsTmpPath[t]] = ArrayFile(tsSorted[t])]
    /\ tsPc' = [tsPc EXCEPT ![t] = "rename"]
    /\ UNCHANGED <<tsSet, tsFile, tsNow, tsSorted, tsTmpPath>>
    /\ UNCHANGED nonTsVars

\* markCompleted, lines 40-41: rename(tmpPath, this.path) moves the temporary file over
\* the state file and the call resolves, or finds no file at tmpPath and the
\* call rejects
TsRenamed(t) ==
    /\ tsPc[t] = "rename"
    /\ IF tsTmp[tsTmpPath[t]] = AbsentFile
         THEN /\ tsPc' = [tsPc EXCEPT ![t] = "rejected"]
              /\ UNCHANGED <<tsFile, tsTmp>>
         ELSE /\ tsFile' = tsTmp[tsTmpPath[t]]
              /\ tsTmp' = [tsTmp EXCEPT ![tsTmpPath[t]] = AbsentFile]
              /\ tsPc' = [tsPc EXCEPT ![t] = "resolved"]
    /\ UNCHANGED <<tsSet, tsNow, tsSorted, tsTmpPath>>
    /\ UNCHANGED nonTsVars

TsNext ==
    \/ TsTick
    \/ \E t \in Callers : TsCall(t)
    \/ \E t \in Callers : TsNameTemp(t)
    \/ \E t \in Callers : TsWritten(t)
    \/ \E t \in Callers : TsRenamed(t)

(* --------------------------- specifications ---------------------------- *)

\* the component is not exercised: its variables stay at one fixed value
PoolIdle ==
    /\ workersArg = 1
    /\ workers = 1
    /\ jobs = 0
    /\ ctxDone = FALSE
    /\ runPc = "returned"
    /\ spawnI = 0
    /\ enqI = 1
    /\ jobChClosed = FALSE
    /\ wPc = [w \in WorkerIds |-> "unspawned"]
    /\ wJob = [w \in WorkerIds |-> 0]
    /\ wg = 0
    /\ errCh = <<>>
    /\ errChClosed = FALSE
    /\ errs = <<>>
    /\ ret = <<>>
    /\ status = <<>>
    /\ startCount = <<>>
    /\ sawDone = FALSE
    /\ ctxDoneAtCall = FALSE

RetryIdle ==
    /\ variant = "withRetry"
    /\ attemptsArg = 1
    /\ attempts = 1
    /\ failsBefore = 0
    /\ retryCtxDone = FALSE
    /\ retryPc = "returned"
    /\ retryI = 0
    /\ calls = 0
    /\ retryErr = NilErr
    /\ timerFired = FALSE
    /\ waits = <<>>
    /\ retVal = 0
    /\ retErr = NilErr
    /\ wokenBy = "none"
    /\ cancelledInWait = FALSE
    /\ retryCtxDoneAtCall = FALSE

StoreIdle == StoreInitWith({AbsentFile})

FreshIdle ==
    /\ cachedAt = ZeroTime
    /\ ttl = 0
    /\ now = ZeroTime
    /\ freshPc = "returned"
    /\ freshResult = TRUE

CacheIdle == CacheInitWith({OtherFile("absent")})

LaIdle ==
    /\ laVariant = "main"
    /\ laLoad = "notexist"
    /\ laStamp = ZeroTime
    /\ laTtl = 0
    /\ laNow = ZeroTime
    /\ laRefresh = FALSE
    /\ laPc = "returned"
    /\ laHasCached = FALSE
    /\ laCachedAt = ZeroTime
    /\ laFetch = "none"
    /\ laSave = "none"
    /\ laRet = "none"
    /\ laErr = FALSE

DlIdle ==
    /\ dlSong = FALSE
    /\ dlStatus = "doerr"
    /\ dlDeclared = Undeclared
    /\ dlBody = 0
    /\ dlHasProgress = FALSE
    /\ dlCt = <<>>
    /\ dlDstBefore = AbsentDst
    /\ dlDst = AbsentDst
    /\ dlPc = "returned"
    /\ dlRead = 0
    /\ dlWritten = 0
    /\ dlTotal = 0
    /\ dlClock = 0
    /\ dlLast = NoTime
    /\ dlCalls = <<>>
    /\ dlErr = "do"
    /\ dlResBytes = 0
    /\ sgMp3 = FALSE
    /\ sgFlac = FALSE
    /\ sgFfmpeg = FALSE
    /\ sgType = "none"


EqIdle ==
    /\ eqN = 1
    /\ eqOut = [c \in 1..MaxAttempts |-> TRUE]
    /\ eqCancelAt = 0
    /\ eqA = [ExecStart EXCEPT !.pc = "returned"]
    /\ eqB = [ExecStart EXCEPT !.pc = "returned"]


JobIdle ==
    /\ jbName = [c \in Cids |-> "A"]
    /\ jbDone = {}
    /\ jbSet = {}
    /\ jbCtxDone = FALSE
    /\ job = [j \in Cids |-> JReturns(JobFresh, "nil")]


RtIdle ==
    /\ rtFile = NoFile
    /\ rtLeft = NoFile
    /\ rtTry = 1
    /\ rtPc = "returned"
    /\ rtBody = 0
    /\ rtOff = 0
    /\ rtErr = "failed"


TsIdle ==
    /\ tsSet = {}
    /\ tsFile = AbsentFile
    /\ tsTmp = [ms \in TsClock |-> AbsentFile]
    /\ tsNow = 0
    /\ tsPc = [t \in Callers |-> "resolved"]
    /\ tsSorted = [t \in Callers |-> <<>>]
    /\ tsTmpPath = [t \in Callers |-> 0]

PoolSpecInit == PoolInit /\ RetryIdle /\ StoreIdle /\ FreshIdle /\ CacheIdle /\ LaIdle /\ DlIdle /\ EqIdle /\ JobIdle /\ RtIdle /\ TsIdle
RetrySpecInit == RetryInit /\ PoolIdle /\ StoreIdle /\ FreshIdle /\ CacheIdle /\ LaIdle /\ DlIdle /\ EqIdle /\ JobIdle /\ RtIdle /\ TsIdle
StoreSpecInit == StoreInit /\ PoolIdle /\ RetryIdle /\ FreshIdle /\ CacheIdle /\ LaIdle /\ DlIdle /\ EqIdle /\ JobIdle /\ RtIdle /\ TsIdle
LoadSpecInit == LoadInit /\ PoolIdle /\ RetryIdle /\ FreshIdle /\ CacheIdle /\ LaIdle /\ DlIdle /\ EqIdle /\ JobIdle /\ RtIdle /\ TsIdle
FreshSpecInit == FreshInit /\ PoolIdle /\ RetryIdle /\ StoreIdle /\ CacheIdle /\ LaIdle /\ DlIdle /\ EqIdle /\ JobIdle /\ RtIdle /\ TsIdle
CacheSpecInit == CacheInit /\ PoolIdle /\ RetryIdle /\ StoreIdle /\ FreshIdle /\ LaIdle /\ DlIdle /\ EqIdle /\ JobIdle /\ RtIdle /\ TsIdle
LaSpecInit == LaInit /\ PoolIdle /\ RetryIdle /\ StoreIdle /\ FreshIdle /\ CacheIdle /\ DlIdle /\ EqIdle /\ JobIdle /\ RtIdle /\ TsIdle
DlSpecInit == DlInit /\ PoolIdle /\ RetryIdle /\ StoreIdle /\ FreshIdle /\ CacheIdle /\ LaIdle /\ EqIdle /\ JobIdle /\ RtIdle /\ TsIdle
EqSpecInit == EqInit /\ PoolIdle /\ RetryIdle /\ StoreIdle /\ FreshIdle /\ CacheIdle /\ LaIdle /\ DlIdle /\ JobIdle /\ RtIdle /\ TsIdle
JobSpecInit == JobInit /\ PoolIdle /\ RetryIdle /\ StoreIdle /\ FreshIdle /\ CacheIdle /\ LaIdle /\ DlIdle /\ EqIdle /\ RtIdle /\ TsIdle
RtSpecInit == RtInit /\ PoolIdle /\ RetryIdle /\ StoreIdle /\ FreshIdle /\ CacheIdle /\ LaIdle /\ DlIdle /\ EqIdle /\ JobIdle /\ TsIdle
TsSpecInit == TsInit /\ PoolIdle /\ RetryIdle /\ StoreIdle /\ FreshIdle /\ CacheIdle /\ LaIdle /\ DlIdle /\ EqIdle /\ JobIdle /\ RtIdle

PoolSpec == PoolSpecInit /\ [][PoolNext]_vars

\* the Go scheduler runs every runnable goroutine and every job terminates
PoolFairSpec == PoolSpecInit /\ [][PoolNext]_vars /\ WF_vars(PoolProgress)

RetrySpec == RetrySpecInit /\ [][RetryNext]_vars

StoreSpec == StoreSpecInit /\ [][StoreNext]_vars

\* NewStore alone, on arbitrary contents of the state file
LoadSpec == LoadSpecInit /\ [][LoadNext]_vars

\* shouldUseCachedAlbums on arbitrary arguments
FreshSpec == FreshSpecInit /\ [][FreshNext]_vars

\* Save, Load and crashes on arbitrary contents of the cache file
CacheSpec == CacheSpecInit /\ [][CacheNext]_vars

\* one call of loadAlbums, on arbitrary outcomes of the cache and of the fetch
LaSpec == LaSpecInit /\ [][LaNext]_vars

\* one transfer, alone or as part of a song download
DlSpec == DlSpecInit /\ [][DlNext]_vars

\* withRetry and withRetryResult on the same arguments, outcomes and cancellation
EqSpec == EqSpecInit /\ [][EqNext]_vars

\* the album jobs of one run, interleaved, on arbitrary outcomes of their steps
JobSpec == JobSpecInit /\ [][JobNext]_vars

\* DownloadToFile under withRetry: up to three transfers into the same path
RtSpec == RtSpecInit /\ [][RtNext]_vars

\* one markCompleted per album job of the TUI, interleaved at its awaits
TsSpec == TsSpecInit /\ [][TsNext]_vars

(* --------------------- properties of worker.Run ------------------------ *)

Limit == IF workersArg < 1 THEN 1 ELSE workersArg
Running == {j \in 1..jobs : status[j] = "running"}
Started == {j \in 1..jobs : startCount[j] > 0}
Finished == {j \in 1..jobs : status[j] \in {"completed", "failed"}}
Failed == {j \in 1..jobs : status[j] = "failed"}
Returned == runPc = "returned"
Occurrences(seq, e) == Cardinality({k \in 1..Len(seq) : seq[k] = e})

\* C1: at no moment are more than max(W,1) jobs executing concurrently
\* (W < 1 behaves like W = 1).
C1_BoundedConcurrency == Cardinality(Running) <= Limit

\* the limit is reached while a further job is still waiting to be handed over
C1_Witness ==
    /\ workersArg = MaxWorkers
    /\ Cardinality(Running) = MaxWorkers
    /\ \E j \in 1..jobs : status[j] = "queued"

C1_WitnessCoerced ==
    /\ workersArg < 1
    /\ Cardinality(Running) = 1
    /\ \E j \in 1..jobs : status[j] = "queued"

\* C2: without cancellation every job is started exactly once and moves
\* queued -> running -> completed|failed, never back and never twice.
C2_JobLifecycle ==
    /\ [](Returned /\ ~ctxDone =>
            \A j \in 1..jobs : startCount[j] = 1 /\ status[j] \in {"completed", "failed"})
    /\ [][\A j \in 1..jobs :
            /\ startCount'[j] <= 1
            /\ status'[j] # status[j] =>
                  \/ status[j] = "queued" /\ status'[j] = "running"
                  \/ status[j] = "running" /\ status'[j] \in {"completed", "failed"}]_vars

C2_Witness ==
    /\ Returned
    /\ ~ctxDone
    /\ jobs = MaxJobs
    /\ \E j \in 1..jobs : status[j] = "failed"
    /\ \E j \in 1..jobs : status[j] = "completed"

\* C3 as stated: a failing job does not stop the other jobs, the returned error
\* holds every job failure exactly once, and Run returns success only if no job
\* failed and no cancellation occurred.
C3_Original ==
    Returned =>
        /\ ~ctxDone => Finished = 1..jobs
        /\ \A j \in 1..jobs : Occurrences(ret, JobErr(j)) = (IF j \in Failed THEN 1 ELSE 0)
        /\ ret = <<>> => (Failed = {} /\ ~ctxDone)

\* C3 amended: the same, the success clause restricted to a non-empty job list.
C3_CollectsAllFailures ==
    Returned =>
        /\ ~ctxDone => Finished = 1..jobs
        /\ \A j \in 1..jobs : Occurrences(ret, JobErr(j)) = (IF j \in Failed THEN 1 ELSE 0)
        /\ (ret = <<>> /\ jobs > 0) => (Failed = {} /\ ~ctxDone)

\* the first job failed, a later job still ran, and two failures were joined
C3_Witness ==
    /\ Returned
    /\ jobs >= 3
    /\ status[1] = "failed"
    /\ status[2] = "completed"
    /\ status[3] = "failed"
    /\ Occurrences(ret, JobErr(1)) = 1
    /\ Occurrences(ret, JobErr(3)) = 1

\* C4 as stated: for every job list, a cancellation signaled by the time Run
\* returns is part of the returned error.
C4_Original == (Returned /\ ctxDone) => Occurrences(ret, CtxErr) = 1

\* C4 amended: for every non-empty job list, a cancellation signaled by the
\* time Run returns is part of the returned error, even if no job failed.
C4_CancelReported == (Returned /\ ctxDone /\ jobs > 0) => Occurrences(ret, CtxErr) = 1

C4_Witness ==
    /\ Returned
    /\ ctxDone
    /\ jobs > 0
    /\ Failed = {}
    /\ ret = <<CtxErr>>

\* C5: when the collected failures are read and when Run returns, no job is
\* running: every job a worker pulled off the queue has finished and every
\* worker goroutine has exited.
C5_WaitsForDispatched ==
    runPc \in {"collect", "ctxcheck", "returned"} /\ jobs > 0 =>
        /\ Running = {}
        /\ Started = Finished
        /\ \A w \in WorkerIds : wPc[w] \in {"unspawned", "done"}
        /\ Len(errCh) + Len(errs) >= Cardinality(Failed)

\* a job pulled before the cancellation was observed has finished, others never ran
C5_Witness ==
    /\ runPc = "collect"
    /\ sawDone
    /\ Finished # {}
    /\ Finished # 1..jobs

\* C6 as stated: once cancellation has been signaled no further job is handed
\* to a worker.
C6_Original ==
    [][ctxDone => \A j \in 1..jobs : status[j] = "queued" => status'[j] = "queued"]_vars

\* C6 amended: once the select of the enqueue loop has taken the cancellation
\* case, no further job is handed to a worker and every job not handed over
\* by then is never started.
C6_NoHandoffAfterObserved ==
    [][sawDone => \A j \in 1..jobs : status[j] = "queued" => status'[j] = "queued"]_vars

C6_Witness ==
    /\ Returned
    /\ sawDone
    /\ \E j \in 1..jobs : status[j] = "queued"
    /\ \E j \in 1..jobs : status[j] # "queued"

\* C7: with ctx cancelled before the call and n >= 1 terminating jobs, Run
\* returns, its error includes the cancellation, and between 0 and n jobs were
\* started, none more than once.
C7_PreCancelled ==
    /\ [](ctxDoneAtCall /\ jobs >= 1 => <>Returned)
    /\ [](ctxDoneAtCall /\ jobs >= 1 /\ Returned =>
            /\ Occurrences(ret, CtxErr) = 1
            /\ \A j \in 1..jobs : startCount[j] <= 1
            /\ Cardinality(Started) \in 0..jobs)

C7_Witness ==
    /\ ctxDoneAtCall
    /\ Returned
    /\ jobs = MaxJobs
    /\ Started # {}
    /\ Started # 1..jobs

C7_WitnessNoneStarted ==
    /\ ctxDoneAtCall
    /\ Returned
    /\ jobs = MaxJobs
    /\ Started = {}

\* C8: Run on an empty job list returns success and starts no worker, no job.
C8_EmptyJobList ==
    jobs = 0 =>
        /\ \A w \in WorkerIds : wPc[w] = "unspawned"
        /\ wg = 0
        /\ spawnI = 0
        /\ runPc \in {"start", "returned"}
        /\ Returned => ret = <<>>

C8_Witness ==
    /\ jobs = 0
    /\ Returned
    /\ ctxDone
    /\ ret = <<>>

(* --------------------- properties of the retry executor ---------------- *)

RetryReturned == retryPc = "returned"
AlwaysFails == failsBefore > MaxAttempts
AttemptLimit == IF attemptsArg < 1 THEN 1 ELSE attemptsArg

\* C9: for N >= 1 and an operation failing k < N times and then succeeding,
\* without cancellation, fn is invoked exactly k+1 times and the success value
\* of the last invocation is returned.
C9_EventuallySucceeds ==
    (attemptsArg >= 1 /\ failsBefore < attemptsArg /\ ~retryCtxDone) =>
        /\ calls <= failsBefore + 1
        /\ RetryReturned =>
              /\ calls = failsBefore + 1
              /\ retErr = NilErr
              /\ variant # "withRetry" => retVal = OpValue(failsBefore + 1)

C9_Witness ==
    /\ RetryReturned
    /\ ~retryCtxDone
    /\ variant = "withRetryResult"
    /\ attemptsArg = MaxAttempts
    /\ failsBefore = MaxAttempts - 1
    /\ calls = MaxAttempts
    /\ retVal = OpValue(MaxAttempts)

C9_WitnessNoValue ==
    /\ RetryReturned
    /\ ~retryCtxDone
    /\ variant = "withRetry"
    /\ attemptsArg = MaxAttempts
    /\ failsBefore = MaxAttempts - 1
    /\ retErr = NilErr

\* C10: for every N (N < 1 treated as 1) and an always-failing operation,
\* fn is never invoked more than max(N,1) times and, without cancellation, it
\* is invoked exactly max(N,1) times and the failure of the final invocation
\* is returned.
C10_ReturnsLastError ==
    AlwaysFails =>
        /\ calls <= AttemptLimit
        /\ (RetryReturned /\ ~retryCtxDone) =>
              /\ calls = AttemptLimit
              /\ retErr = OpErr(AttemptLimit)
              /\ retVal = 0

C10_Witness ==
    /\ AlwaysFails
    /\ RetryReturned
    /\ ~retryCtxDone
    /\ attemptsArg = MaxAttempts
    /\ calls = MaxAttempts
    /\ retErr = OpErr(MaxAttempts)

C10_WitnessCoerced ==
    /\ AlwaysFails
    /\ RetryReturned
    /\ ~retryCtxDone
    /\ attemptsArg < 1
    /\ calls = 1
    /\ retErr = OpErr(1)

\* C11: if ctx is cancelled while the executor is blocked in the wait after a
\* failed attempt i < N, it returns the cancellation failure, not the
\* operation's error, and never invokes the operation again.
C11_CancelDuringWait ==
    /\ [](cancelledInWait /\ RetryReturned => retErr = CtxErr /\ retVal = 0)
    /\ [][cancelledInWait => calls' = calls /\ retryPc' \in {"woken", "returned"}]_vars

\* the timer fired after the cancellation and the executor still reported the latter
C11_Witness ==
    /\ RetryReturned
    /\ cancelledInWait
    /\ timerFired
    /\ calls = 2
    /\ attemptsArg = MaxAttempts
    /\ retErr = CtxErr
    /\ retryErr = OpErr(2)

\* C12: with ctx cancelled before the call and a failing operation, the
\* executor returns the cancellation failure and the number of invocations is
\* one fixed value for every N >= 1 (one for the Go functions, zero for ts).
C12_PreCancelled ==
    (RetryReturned /\ retryCtxDoneAtCall /\ failsBefore >= 1 /\ attemptsArg >= 1) =>
        /\ retErr = CtxErr
        /\ calls = (IF variant = "ts" THEN 0 ELSE 1)

\* C13: the wait after failed attempt i is i * 400 ms; there is no wait before
\* the first attempt and none after the final attempt.
C13_LinearBackoff ==
    /\ \A k \in 1..Len(waits) : waits[k] = 400 * k
    /\ calls = 0 => waits = <<>>
    /\ Len(waits) <= calls
    /\ Len(waits) >= calls - 1
    /\ Len(waits) < AttemptLimit
    /\ retryPc \in {"select", "blocked", "woken"} => Len(waits) = calls
    /\ (RetryReturned /\ calls > 0 /\ retErr # CtxErr) => Len(waits) = calls - 1

C13_Witness ==
    /\ RetryReturned
    /\ attemptsArg = MaxAttempts
    /\ calls = MaxAttempts
    /\ Len(waits) = MaxAttempts - 1
    /\ waits[3] = 1200
    /\ retErr = OpErr(MaxAttempts)

(* --------------------- properties of state.Store ----------------------- *)

StrictlyAscending(seq) == \A k \in 1..(Len(seq) - 1) : seq[k] < seq[k + 1]

\* C14: MarkCompleted for a name already in the set returns nil at once, with
\* no file I/O, and leaves s.set and the persisted file unchanged; the file
\* never lists a name twice.
C14_Idempotent ==
    /\ [](stFile.kind = "array" => Len(stFile.elems) = Cardinality(Range(stFile.elems)))
    /\ [][\A t \in Callers :
            (tPc[t] = "check" /\ tName[t] \in stSet /\ tPc'[t] # "check" /\ crashes' = crashes) =>
                /\ tPc'[t] = "idle"
                /\ lastRet' = "nil"
                /\ lastEarly'
                /\ stSet' = stSet
                /\ stFile' = stFile
                /\ tTmp' = tTmp]_vars

C14_Witness ==
    /\ stOpen = "open"
    /\ lastRet = "nil"
    /\ lastEarly
    /\ ~anyFailed
    /\ stSet = {1}
    /\ stFile = ArrayFile(<<1>>)

\* C15: a name for which MarkCompleted returned nil, or which was loaded
\* before, is in the set that NewStore loads after a crash.
C15_DurableAfterSuccess ==
    (crashes > 0 /\ stOpen # "unopened") => (stOpen = "open" /\ durable \subseteq stSet)

\* C16: after a MarkCompleted that returned nil the file is a strictly
\* ascending array whose elements are exactly s.set.
C16_FileMatchesSet ==
    (stOpen = "open" /\ stMu = 0 /\ lastRet = "nil") =>
        /\ stFile.kind = "array"
        /\ StrictlyAscending(stFile.elems)
        /\ Range(stFile.elems) = stSet

\* C17: the file at s.path is never partially written: while a MarkCompleted
\* call is in progress, and so at any crash inside it, the file holds what it
\* held when the call began, and the only step that changes it replaces it by
\* the complete payload of that call.
C17_CrashSafe ==
    /\ [](stFile.kind \in {"absent", "array"})
    /\ [](\A t \in Callers : tPc[t] # "idle" => stFile = fileAtCall[t])
    /\ [][crashes' # crashes => stFile' = stFile]_vars
    /\ [][stFile' # stFile =>
            \E t \in Callers : /\ tPc[t] = "rename"
                               /\ stFile' = ArrayFile(tAlbums[t])
                               /\ tAlbums[t] = SortedSeq(stSet)]_vars

C17_Witness ==
    /\ crashes = 1
    /\ crashedAt = "write"
    /\ stOpen = "unopened"
    /\ stFile = ArrayFile(<<1>>)

\* C18: calls of IsCompleted and MarkCompleted by several callers run one at
\* a time: at most one caller is inside MarkCompleted, IsCompleted answers
\* only between such calls, and when every call so far has returned nil the
\* file holds every name marked by any caller.
CallersInside == {t \in Callers : tPc[t] # "idle"}

C18_Serialised ==
    /\ [](Cardinality(CallersInside) <= 1)
    /\ [](CallersInside \subseteq {stMu})
    /\ []((stOpen = "open" /\ stMu = 0 /\ ~anyFailed /\ crashes = 0) =>
            durable \subseteq Range(stFile.elems))
    /\ [][(lastSeen' # lastSeen /\ lastSeen' # "none") => CallersInside = {}]_vars

C18_Witness ==
    /\ stMu = 2
    /\ tPc[2] = "rename"
    /\ tPc[1] = "idle"
    /\ tAlbums[2] = <<1, 2>>
    /\ fileAtCall[2] = ArrayFile(<<1>>)
    /\ durable = {1}
    /\ lastSeen = "false"
    /\ ~anyFailed

\* contents that are not a JSON array of strings
NotArrayOfStrings(f) ==
    \/ f.kind \in {"malformed", "null", "object", "partial"}
    \/ f.kind = "array" /\ Range(f.elems) \cap {NullElem, NumElem} # {}

\* C19 as stated: NewStore gives an empty store when the file does not
\* exist, and an error for any other read failure and for contents that are
\* not a JSON array of strings.
C19_Original ==
    stOpen # "unopened" =>
        /\ stFile.kind = "absent" => (stOpen = "open" /\ stSet = {})
        /\ stFile.kind = "unreadable" => stOpen = "error"
        /\ NotArrayOfStrings(stFile) => stOpen = "error"

\* C19: NewStore gives an empty store when the file does not exist or holds
\* JSON null; it gives an error exactly for a read failure other than absence,
\* for malformed JSON, for a JSON value that is neither an array nor null, and
\* for an array with an element that is neither a string nor null; otherwise
\* it loads the strings of the array, a null element as the empty string.
C19_NewStoreErrors ==
    stOpen # "unopened" =>
        /\ stFile.kind \in {"absent", "null"} => (stOpen = "open" /\ stSet = {})
        /\ stOpen = "error" <=>
              \/ stFile.kind \in {"unreadable", "malformed", "object"}
              \/ stFile.kind = "array" /\ NumElem \in Range(stFile.elems)
        /\ (stOpen = "open" /\ stFile.kind = "array") =>
              /\ stSet \cap Names = Range(stFile.elems) \cap Names
              /\ EmptyName \in stSet <=> Range(stFile.elems) \cap {NullElem, EmptyName} # {}

C19_Witness ==
    /\ stOpen = "open"
    /\ stFile = ArrayFile(<<NullElem, 1>>)
    /\ stSet = {EmptyName, 1}
    /\ lastSeen = "true"

(* ------------------ properties of shouldUseCachedAlbums ---------------- *)

\* C20: shouldUseCachedAlbums is true when ttl <= 0; otherwise false when
\* cachedAt is the zero time; otherwise true iff now - cachedAt <= ttl, a
\* negative difference counting as fresh.
C20_Freshness ==
    freshPc = "returned" =>
        freshResult = (IF ttl <= 0 THEN TRUE
                       ELSE IF cachedAt = ZeroTime THEN FALSE
                       ELSE now - cachedAt <= ttl)

(* --------------------- properties of catalog.Cache --------------------- *)

LoadReturned == ldErr # "none"

\* C21: a Load that follows a Save that returned nil, with no write in
\* between, returns the saved items in the saved order, and a non-zero
\* timestamp that is at most one second before the clock reading of the Save.
C21_RoundTrip ==
    (LoadReturned /\ svPc = "idle" /\ svRet = "nil") =>
        /\ ldErr = "nil"
        /\ ldAlbums = svItems
        /\ ldAt # ZeroTime
        /\ ldAt <= svNow
        /\ svNow - ldAt < TicksPerSecond

C21_Witness ==
    /\ LoadReturned
    /\ svPc = "idle"
    /\ svRet = "nil"
    /\ svItems = Slice(<<MaxNames, 1>>)
    /\ ldAlbums = Slice(<<MaxNames, 1>>)
    /\ svNow = TicksPerSecond + 1
    /\ ldAt = TicksPerSecond

\* C22: Load reports the not-exist error iff the file is absent; malformed
\* JSON and a non-empty fetchedAt that is not RFC3339 give another error; an
\* empty or missing fetchedAt gives the zero timestamp and no error.
C22_LoadErrors ==
    LoadReturned =>
        /\ ldErr = "notexist" <=> cFile.kind = "absent"
        /\ (cFile.kind = "malformed" \/ (cFile.kind = "payload" /\ cFile.at = BadStamp)) =>
              ldErr = "other"
        /\ (cFile.kind = "payload" /\ cFile.at = EmptyStamp) =>
              /\ ldErr = "nil"
              /\ ldAt = ZeroTime
              /\ ldAlbums = UnmarshalAlbums(cFile.albums)

C22_Witness ==
    /\ LoadReturned
    /\ cFile = PayloadFile(BadStamp, ArrayJson(<<1>>))
    /\ ldErr = "other"
    /\ svRet = "none"

\* C23: while Save runs, at a crash inside it and for a Load that runs
\* meanwhile, the file at c.path is the complete file that was there when Save
\* was called; the only step that changes it puts the complete new snapshot
\* there; a Save that returns an error leaves it as it was.
C23_AtomicSave ==
    /\ [](cFile.kind # "partial")
    /\ [](svPc # "idle" => cFile = svFileAtCall)
    /\ []((LoadReturned /\ svPc # "idle") =>
            /\ ldErr = LoadOf(svFileAtCall).err
            /\ ldAlbums = LoadOf(svFileAtCall).albums
            /\ ldAt = LoadOf(svFileAtCall).at)
    /\ [][cCrashes' # cCrashes => cFile' = cFile]_vars
    /\ [][(svPc # "idle" /\ svPc' = "idle" /\ svRet' = "err") => cFile' = svFileAtCall]_vars
    /\ [][cFile' # cFile => (svPc = "rename" /\ svRet' = "nil" /\ cFile' = SavedFile)]_vars

C23_Witness ==
    /\ cCrashes = 1
    /\ cCrashedAt = "write"
    /\ cFile = PayloadFile(1, ArrayJson(<<1>>))
    /\ LoadReturned
    /\ ldErr = "nil"
    /\ ldAt = ParseRFC3339(1)

(* ----------------------- properties of loadAlbums ---------------------- *)

LaReturned == laPc = "returned"
LaFetched == laFetch # "none"
\* the loaded snapshot is fresh, respectively stale, under the TTL
LaFresh == laTtl <= 0 \/ (laCachedAt # ZeroTime /\ laNow - laCachedAt <= laTtl)
LaStale == laTtl > 0 /\ (laCachedAt = ZeroTime \/ laNow - laCachedAt > laTtl)

\* C24: loadAlbums returns the cached snapshot without a network fetch only
\* when a snapshot was loaded, refresh is not forced and the snapshot is
\* fresh under the TTL; a loaded snapshot that is stale always leads to a fetch.
C24_CachePreferredOnlyIfFresh ==
    LaReturned =>
        /\ (laRet = "cached" /\ ~LaFetched) => (laHasCached /\ ~laRefresh /\ LaFresh)
        /\ (laHasCached /\ LaStale) => LaFetched

\* C25: when the fetch fails, loadAlbums returns the loaded snapshot with no
\* error if one was loaded, whatever its age and whether or not refresh was
\* forced, and an error otherwise; it returns an error in no other case.
C25_FallbackToCache ==
    LaReturned =>
        /\ (laFetch = "failed" /\ laHasCached) => (laRet = "cached" /\ ~laErr)
        /\ (laFetch = "failed" /\ ~laHasCached) => (laRet = "nil" /\ laErr)
        /\ laErr => (laFetch = "failed" /\ ~laHasCached)

C25_Witness ==
    /\ LaReturned
    /\ laFetch = "failed"
    /\ laHasCached
    /\ laRefresh
    /\ LaStale
    /\ laRet = "cached"
    /\ ~laErr

\* C26: after a successful fetch loadAlbums calls Cache.Save with the fetched
\* albums and returns the fetched albums with no error, also when Save fails.
C26_SaveFailureTolerated ==
    /\ laPc = "save" => laFetch = "ok"
    /\ (LaReturned /\ laFetch = "ok") =>
          /\ laSave # "none"
          /\ laRet = "fetched"
          /\ ~laErr
    /\ laSave # "none" => laFetch = "ok"

C26_Witness ==
    /\ LaReturned
    /\ laFetch = "ok"
    /\ laSave = "failed"
    /\ laRet = "fetched"
    /\ ~laErr

(* ------------------ properties of download.Downloader ------------------ *)

\* the transfer (DownloadToFileWithProgress) has returned without an error
TransferOk == dlErr \in {"nil", "rename", "ffmpeg", "remove"}
LastCall == dlCalls[Len(dlCalls)]
CeilDiv(a, b) == (a + b - 1) \div b

\* C27: after a successful transfer of a source that declares length L, the
\* last invocation of the callback reports bytesWritten = L = totalBytes, and
\* the BytesWritten of the result is that value.
C27_FinalReport ==
    (TransferOk /\ dlHasProgress /\ dlDeclared # Undeclared) =>
        /\ Len(dlCalls) > 0
        /\ LastCall.final
        /\ LastCall.b = dlDeclared
        /\ LastCall.total = dlDeclared
        /\ dlResBytes = LastCall.b

\* C28: two consecutive non-final invocations are at least 700 ms apart; there
\* is exactly one final invocation, the last one, when the transfer succeeds
\* and none when it fails; so after d ms there have been fewer than
\* ceil(d / 700) + 2 invocations.
C28_Throttled ==
    /\ \A k \in 1..(Len(dlCalls) - 1) :
          /\ ~dlCalls[k].final
          /\ ~dlCalls[k + 1].final => dlCalls[k + 1].at - dlCalls[k].at >= ThrottleMs
    /\ (TransferOk /\ dlHasProgress) => (Len(dlCalls) > 0 /\ LastCall.final)
    /\ (~TransferOk /\ Len(dlCalls) > 0) => ~LastCall.final
    /\ ~dlHasProgress => dlCalls = <<>>
    /\ Len(dlCalls) < CeilDiv(dlClock, ThrottleMs) + 2

C28_Witness ==
    /\ dlPc = "returned"
    /\ dlErr = "nil"
    /\ Len(dlCalls) = 3
    /\ dlCalls[1].at = TickMs
    /\ dlCalls[2].at = TickMs + ThrottleMs
    /\ ~dlCalls[2].final
    /\ dlCalls[3].final
    /\ dlClock = TickMs + ThrottleMs
    /\ dlWritten = 3

\* C29: a status outside 2xx fails the transfer with the destination file
\* untouched; a failure while the body is copied fails it with the bytes
\* written so far left in the destination file, which the transfer never
\* removes.
C29_NoCleanup ==
    /\ [](dlStatus = "other" =>
            /\ dlDst = dlDstBefore
            /\ dlPc = "returned" => dlErr = "status")
    /\ [](dlErr = "copy" => (dlPc = "returned" /\ dlDst = NewDst(dlWritten)))
    /\ [][(dlDst.state = "new" /\ dlDst'.state # "new") => (TransferOk /\ dlSong)]_vars

C29_Witness ==
    /\ dlPc = "returned"
    /\ dlErr = "copy"
    /\ dlRead = 2
    /\ dlWritten = 1
    /\ dlDst = NewDst(1)
    /\ dlDstBefore = OldDst

\* the content type contains audio/mpeg in some letter case
MentionsMpeg(ct) == \E k \in 1..Len(ct) : ct[k] \in {"audio/mpeg", "Audio/MPEG", "AUDIO/MPEG"}

\* C30: after DownloadSongWithProgress succeeds, a content type containing
\* audio/mpeg in any letter case means the file was renamed to <name>.mp3
\* and the conversion was not invoked; any other content type means the
\* conversion was invoked and the result is <name>.flac; <name>.wav is gone.
C30_SongResult ==
    (dlPc = "returned" /\ sgType # "none") =>
        /\ dlSong
        /\ TransferOk
        /\ IF MentionsMpeg(dlCt)
             THEN sgType = ".mp3" /\ sgMp3 /\ ~sgFfmpeg /\ ~sgFlac
             ELSE sgType = ".flac" /\ sgFlac /\ sgFfmpeg /\ ~sgMp3
        /\ dlDst = AbsentDst

C30_Witness ==
    /\ dlPc = "returned"
    /\ sgType = ".mp3"
    /\ dlCt = <<"AUDIO/MPEG", "; charset=binary">>
    /\ sgMp3
    /\ dlDst = AbsentDst

(* ------------------ termination of worker.Run ------------------ *)

\* C35: with terminating jobs, Run returns for every worker count, job list
\* and cancellation timing; a worker that reports a failure always finds a
\* free slot in errCh, and when Run returns no worker is left waiting on the
\* job queue.
C35_Terminates ==
    /\ <>Returned
    /\ [](\A w \in WorkerIds : wPc[w] = "send" => (Len(errCh) < jobs /\ ~errChClosed))
    /\ [](Returned => \A w \in WorkerIds : wPc[w] \in {"unspawned", "done"})
    /\ [](runPc = "collect" => wg = 0)

C35_Witness ==
    /\ Returned
    /\ jobs = MaxJobs
    /\ workers = MaxWorkers
    /\ ~ctxDone
    /\ Len(ret) = MaxJobs
    /\ \A w \in 1..MaxWorkers : wPc[w] = "done"

(* ------------- the completion set against the persisted file ------------- *)

\* C36: whenever IsCompleted can run (s.mu is free), every name it reports as
\* completed is listed in the file at s.path; a MarkCompleted that returned
\* an error has left s.set without its name.
C36_CompletedIsPersisted ==
    (stOpen = "open" /\ stMu = 0) => stSet \subseteq ParsedAlbums(stFile)

(* ------------- equivalence of withRetry and withRetryResult ------------- *)

\* C34: on the same attempt bound, the same outcomes of the operation and the
\* same cancellation timing, withRetry and withRetryResult invoke the
\* operation the same number of times and return the same error (nil for
\* both or the same failure); they also agree after every iteration.
C34_SameBehaviour ==
    /\ (eqA.pc = "returned" /\ eqB.pc = "returned") =>
          /\ eqA.calls = eqB.calls
          /\ eqA.ret = eqB.ret
    /\ (eqA.pc = eqB.pc /\ eqA.i = eqB.i) =>
          /\ eqA.calls = eqB.calls
          /\ eqA.n = eqB.n
    /\ eqB.val # 0 => (eqB.pc = "returned" /\ eqB.ret = NilErr)

\* both were cancelled in the wait after the second of three failed attempts
C34_Witness ==
    /\ eqN = 3
    /\ eqCancelAt = 2
    /\ eqA.pc = "returned"
    /\ eqB.pc = "returned"
    /\ eqA.calls = 2
    /\ eqB.calls = 2
    /\ eqA.ret = CtxErr
    /\ eqB.ret = CtxErr

(* ---------------------- properties of processAlbum --------------------- *)

\* the orders in which the steps of one song can have been completed when
\* its metadata is about to be written: the lyric download happens only for a
\* song whose detail names a lyric
SongOrders == {<<"detail", "asset">>, <<"detail", "lyric", "asset">>}
IsPrefix(p, q) == Len(p) <= Len(q) /\ \A k \in 1..Len(p) : p[k] = q[k]
\* the failure a job returns when the step at position pc fails
FailureOf(pc) == IF pc = "post" THEN "asset" ELSE pc

\* C31: a failure of the conversion tool ends the album job: the step in
\* which the tool fails is the job's last, so neither the tool nor the song's
\* transfer is invoked again by that job.
C31_ConversionFatal ==
    [][\A j \in Cids :
         (job[j].pc = "post" /\ job'[j].err = "ffmpeg") => job'[j].pc = "returned"]_vars

\* C32: a job calls MarkCompleted at most once, and only when the cover step
\* and the song-list fetch have succeeded and every song, in order, has gone
\* through detail fetch, lyric download (if it has a lyric), asset download
\* and metadata write; a job whose step fails returns the failure of that step
\* and has never called MarkCompleted.
C32_MarkedLast ==
    /\ [][\A j \in Cids :
            job'[j].marks # job[j].marks =>
                /\ job[j].marks = 0
                /\ job'[j].marks = 1
                /\ job[j].pc = "mark"
                /\ job[j].cover
                /\ job[j].listed
                /\ job[j].done = job[j].songs]_vars
    /\ [][\A j \in Cids :
            job'[j].done # job[j].done =>
                /\ job'[j].done = job[j].done + 1
                /\ job[j].song = job[j].done + 1
                /\ job[j].pc = "meta"
                /\ job[j].log \in SongOrders]_vars
    /\ [](\A j \in Cids :
            /\ \E o \in SongOrders : IsPrefix(job[j].log, o)
            /\ job[j].listed => job[j].cover
            /\ job[j].pc # "returned" => job[j].done <= job[j].songs
            /\ job[j].pc \in {"detail", "lyric", "asset", "post", "meta"} =>
                  (job[j].listed /\ job[j].song = job[j].done + 1))
    /\ [][\A j \in Cids :
            (job[j].pc # "returned" /\ job'[j].pc = "returned" /\ job'[j].ret # "nil") =>
                /\ job'[j].ret = FailureOf(job[j].pc)
                /\ job[j].pc # "mark" => job'[j].marks = 0]_vars
    /\ [](\A j \in Cids :
            (job[j].pc = "returned" /\ job[j].ret \notin {"nil", "mark"}) => job[j].marks = 0)

\* a job has marked its album after all of MaxSongs songs, the other one failed
C32_Witness ==
    /\ job[1].pc = "returned"
    /\ job[1].ret = "nil"
    /\ job[1].marks = 1
    /\ job[1].done = MaxSongs
    /\ jbName[1] \in jbSet
    /\ job[2].pc = "returned"
    /\ job[2].ret = "meta"
    /\ job[2].done = MaxSongs - 1
    /\ job[2].marks = 0
    /\ jbName[2] \notin jbSet

\* C33: a job that finds the name of its album in the completion set when it
\* starts returns success at once: no network request, no file write, no call
\* of MarkCompleted.
C33_SkipsCompleted ==
    /\ [][\A j \in Cids :
            (job[j].pc = "check" /\ jbName[j] \in jbSet /\ job'[j] # job[j]) =>
                job'[j] = [JReturns(JobFresh, "nil") EXCEPT !.skipped = TRUE]]_vars
    /\ [](\A j \in Cids :
            job[j].skipped =>
                /\ job[j].pc = "returned"
                /\ job[j].ret = "nil"
                /\ ~job[j].net
                /\ ~job[j].file
                /\ job[j].marks = 0)

\* album 2 was processed by an earlier run and is skipped while album 1 is
\* being downloaded
C33_Witness ==
    /\ jbDone = {2}
    /\ jbName[2] = "B"
    /\ job[2].skipped
    /\ job[2].pc = "returned"
    /\ job[2].ret = "nil"
    /\ job[1].net
    /\ job[1].pc = "asset"

\* C38: a job skips its album only if that album, by CID, was fully processed
\* earlier, even when another album of the catalog has the same display name.
C38_SkipsOnlySameAlbum ==
    \A j \in Cids : job[j].skipped => j \in jbDone

(* ----------------- properties of the retried transfer ------------------ *)

\* the bytes of the body received in attempt t, n bytes long
BodyOf(t, n) == [k \in 1..n |-> BodyByte(t, k)]

\* C37: after an attempt that follows failed attempts into the same path has
\* succeeded, the destination holds exactly the bytes of that attempt; from
\* the moment an attempt has opened the destination it holds nothing that an
\* earlier attempt wrote.
C37_RetryOverwrites ==
    /\ (rtPc = "returned" /\ rtErr = "nil") => rtFile = FileOf(BodyOf(rtTry, rtBody))
    /\ rtPc = "copy" => rtFile = FileOf(BodyOf(rtTry, rtOff))

\* the second attempt succeeds with a body shorter than the partial file
\* that the first attempt left
C37_Witness ==
    /\ rtPc = "returned"
    /\ rtErr = "nil"
    /\ rtTry = 2
    /\ rtLeft = FileOf(BodyOf(1, 2))
    /\ rtBody = 1
    /\ rtFile = FileOf(<<BodyByte(2, 1)>>)

(* ---------------- properties of CompletedAlbumStore (TUI) -------------- *)

\* C39: when the jobs' calls of markCompleted for different names overlap, no
\* call is rejected, and once every call has resolved the state file lists
\* every marked name.
C39_ConcurrentMarks ==
    /\ \A t \in Callers : tsPc[t] # "rejected"
    /\ (\A t \in Callers : tsPc[t] = "resolved") =>
          (tsFile.kind = "array" /\ {TsNameOf(t) : t \in Callers} \subseteq Range(tsFile.elems))

====
